---- MODULE Spec2Model ----
(***************************************************************************)
(* The concurrent git-operation core of repo-manager: the operation pool   *)
(* (src/src/git/pool.rs), the worker threads spawned by the dispatch       *)
(* functions (src/src/git/operations.rs), the crossbeam channel, and the   *)
(* owner thread that drains it in MyApp::update (src/src/main.rs) and      *)
(* applies the messages to the workspaces (src/src/workspace/mod.rs).      *)
(*                                                                         *)
(* Threads are anonymous closures, so the live threads form a bag of       *)
(* thread records; a thread that returns is removed from the bag.  The     *)
(* outcome of every git subprocess and of every filesystem scan is chosen  *)
(* by the environment.  Wall-clock time is abstracted: a sleep or a        *)
(* timeout check may take either branch whenever the code allows both.     *)
(***************************************************************************)
EXTENDS Bags, FiniteSets, Integers, Sequences, TLC

VARIABLES
    pool,               \* GIT_OPERATION_POOL: number of () tokens in the VecDeque
    workers,            \* bag of live thread records
    channel,            \* crossbeam unbounded channel: messages sent, not yet received
    workspaces,         \* config.workspaces
    active_workspace_idx,
    syncing_repos,
    error_repos,
    pending_git_loads,
    is_searching,
    first_startup,
    unapplied,          \* history: messages sent minus messages applied by update()
    logger,             \* a Logger: its logs and its max_logs
    now,                \* SystemTime::now(), as the number of log entries stamped so far
    input,              \* the arguments of a library function called on its own
    output              \* what the calls made so far returned

vars == <<pool, workers, channel, workspaces, active_workspace_idx,
          syncing_repos, error_repos, pending_git_loads, is_searching,
          first_startup, unapplied, logger, now, input, output>>

(***************************************************************************)
(* Program constants                                                       *)
(***************************************************************************)
PoolSize == 8
max_attempts == 3
InitialDelayMs == 1000

(***************************************************************************)
(* Bounds of the model                                                     *)
(***************************************************************************)
MaxChannel == 2         \* Spec: messages in the channel before senders wait
MaxQueued == 1          \* SpecFast, SpecFound, SpecPool: the same
MaxThreads == 2         \* Spec, SpecFast, SpecFound: live threads
MaxBatch == 2           \* paths in one ReposFound batch
MaxPoolThreads == 9     \* SpecPool: live threads
MaxPoolRetry == 1       \* SpecPool: live fetch-with-retry threads

(***************************************************************************)
(* Paths.  A path is a sequence of characters.  format!("{:?}", path)      *)
(* writes it between double quotes and escapes '"' and '\'.                *)
(***************************************************************************)
Quote == "\""
Backslash == "\\"

PathA == <<"a">>
PathB == <<"b">>
\* a directory whose name holds a backslash, an ordinary character of a file
\* name on Linux and macOS
PathC == <<"c", Backslash, "c">>

RECURSIVE EscapeDebug(_)
EscapeDebug(p) ==
    IF p = <<>> THEN <<>>
    ELSE (IF Head(p) \in {Quote, Backslash} THEN <<Backslash, Head(p)>> ELSE <<Head(p)>>)
         \o EscapeDebug(Tail(p))

DebugFmt(p) == <<Quote>> \o EscapeDebug(p) \o <<Quote>>

\* str.find('"'): index of the first quote at or after position from, 0 if none
RECURSIVE FindQuote(_, _)
FindQuote(s, from) ==
    IF from > Len(s) THEN 0
    ELSE IF s[from] = Quote THEN from
    ELSE FindQuote(s, from + 1)

\* the text between the first two quotes of an error text, or <<"none">>
NoPath == <<"none">>
QuotedPath(s) ==
    LET start == FindQuote(s, 1) IN
    IF start = 0 THEN NoPath
    ELSE LET end == FindQuote(s, start + 1) IN
         IF end = 0 THEN NoPath
         ELSE SubSeq(s, start + 1, end - 1)

(***************************************************************************)
(* GitInfo and the messages                                                *)
(***************************************************************************)
GitInfoDefault ==
    [current_branch |-> "none", ahead |-> 0, behind |-> 0, has_changes |-> FALSE]

\* snapshots get_git_info may return (the repository is the environment)
GitInfos ==
    { [current_branch |-> "main", ahead |-> 1, behind |-> 1, has_changes |-> TRUE] }

NoText == [fmt |-> "none", body |-> <<>>, attempt |-> 0, delay_ms |-> 0, err |-> ""]

RepoStatusUpdated(repo_path, git_info) ==
    [type |-> "RepoStatusUpdated", repo_path |-> repo_path, git_info |-> git_info,
     text |-> NoText, repos |-> <<>>]

\* GitMessage::Error(format!(...)): fmt names the format string, body is the
\* {:?} of the path (the first argument of every format string; the text
\* before it has no quote), attempt and delay_ms are the numbers the retry
\* notice prints, err is the error text that ends the string
ErrorMsg(fmt, repo_path, attempt, delay_ms, err) ==
    [type |-> "Error", repo_path |-> NoPath, git_info |-> GitInfoDefault,
     text |-> [fmt |-> fmt, body |-> DebugFmt(repo_path),
               attempt |-> attempt, delay_ms |-> delay_ms, err |-> err],
     repos |-> <<>>]

ReposFound(repos) ==
    [type |-> "ReposFound", repo_path |-> NoPath, git_info |-> GitInfoDefault,
     text |-> NoText, repos |-> repos]

(***************************************************************************)
(* Workspace                                                               *)
(***************************************************************************)
RepositoryState(path) == [path |-> path, git_info |-> GitInfoDefault]

HasPath(repositories, path) ==
    \E i \in 1..Len(repositories) : repositories[i].path = path

\* mutant of add_repository: the path is pushed without looking for it first
add_repositoryUnchecked(ws, repo_path) ==
    [ws EXCEPT !.repositories = Append(@, RepositoryState(repo_path))]

\* Workspace::add_repository: the workspace after the call
add_repository(ws, repo_path) ==
    IF HasPath(ws.repositories, repo_path) THEN ws
    ELSE [ws EXCEPT !.repositories = Append(@, RepositoryState(repo_path))]

\* mutant of remove_repository: the index is taken to count from 1
remove_repositoryOneBased(ws, index) ==
    IF index < Len(ws.repositories)
    THEN [ws EXCEPT !.repositories =
              SubSeq(@, 1, index - 1) \o SubSeq(@, index + 1, Len(@))]
    ELSE ws

\* Workspace::remove_repository; index counts from 0 as in the source
remove_repository(ws, index) ==
    IF index < Len(ws.repositories)
    THEN [ws EXCEPT !.repositories =
              SubSeq(@, 1, index) \o SubSeq(@, index + 2, Len(@))]
    ELSE ws

\* Workspace::find_repository_mut: position (from 1) of the first record with
\* the path at or after position i, 0 if there is none
RECURSIVE find_repository_mut(_, _, _)
find_repository_mut(repositories, path, i) ==
    IF i > Len(repositories) THEN 0
    ELSE IF repositories[i].path = path THEN i
    ELSE find_repository_mut(repositories, path, i + 1)

(***************************************************************************)
(* Logger                                                                  *)
(***************************************************************************)
\* impl Default for Logger: Self::new(1000)
max_logs_default == 1000

\* Logger::new(max_logs)
Logger(max_logs) == [logs |-> <<>>, max_logs |-> max_logs]

\* struct LogEntry; timestamp is the reading of the clock
LogEntry(timestamp, level, message) ==
    [timestamp |-> timestamp, level |-> level, message |-> message]

\* mutant of add_log: the oldest entry goes as soon as the log is full
add_logEarly(lg, clock, level, message) ==
    LET pushed == [lg EXCEPT !.logs = Append(@, LogEntry(clock, level, message))] IN
    IF Len(pushed.logs) >= pushed.max_logs
    THEN [pushed EXCEPT !.logs = Tail(@)]
    ELSE pushed

\* Logger::add_log, clock being what SystemTime::now() reads
add_log(lg, clock, level, message) ==
    LET pushed == [lg EXCEPT !.logs = Append(@, LogEntry(clock, level, message))] IN
    IF Len(pushed.logs) > pushed.max_logs
    THEN [pushed EXCEPT !.logs = Tail(@)]        \* self.logs.remove(0)
    ELSE pushed

info(lg, clock, message) == add_log(lg, clock, "Info", message)
warning(lg, clock, message) == add_log(lg, clock, "Warning", message)
error(lg, clock, message) == add_log(lg, clock, "Error", message)

\* Logger::clear
clear(lg) == [lg EXCEPT !.logs = <<>>]

NoInput == [fn |-> "none"]

(***************************************************************************)
(* OperationPool                                                           *)
(***************************************************************************)
\* mutant of acquire: hands out a token when the queue is already empty
acquireOffByOne(p) ==
    IF p >= 0 THEN [pool |-> p - 1, guard |-> TRUE]
    ELSE [pool |-> p, guard |-> FALSE]

\* PoolGuard::acquire on a pool of p tokens: pop_front().map(|_| PoolGuard)
acquire(p) ==
    IF p > 0 THEN [pool |-> p - 1, guard |-> TRUE]
    ELSE [pool |-> p, guard |-> FALSE]

\* mutant of drop: the token is not pushed back
dropLeak(p, guard) == p

\* mutant of drop: a token is pushed back whether or not one was taken
dropAlways(p, guard) == p + 1

\* impl Drop for PoolGuard, run when the scope of _guard ends; guard tells
\* whether _guard holds a PoolGuard (Some) or not (None)
drop(p, guard) == IF guard THEN p + 1 ELSE p

(***************************************************************************)
(* Threads                                                                 *)
(***************************************************************************)
FastKinds == {"pull", "push", "fetch"}

\* a thread right after std::thread::spawn; queries and posted are history:
\* the number of get_git_info calls the thread has made and, of each message
\* it has sent, the format string and the numbers printed
Thread(kind, path, pc) ==
    [kind |-> kind, path |-> path, pc |-> pc, guard |-> FALSE,
     attempt |-> 0, delay_ms |-> InitialDelayMs, queries |-> 0, posted |-> <<>>]

Summary(msg) ==
    [fmt |-> IF msg.type = "Error" THEN msg.text.fmt ELSE msg.type,
     attempt |-> msg.text.attempt, delay_ms |-> msg.text.delay_ms]

Live == BagToSet(workers)

CountLive(P(_)) ==
    BagCardinality([w \in {x \in Live : P(x)} |-> workers[w]])

IsFast(w) == w.kind \in FastKinds
IsRetry(w) == w.kind = "Retry"
IsRefresh(w) == w.kind = "Refresh"
IsSearch(w) == w.kind = "Search"
IsAny(w) == TRUE

Spawn(ts) == workers' = workers (+) ts
Become(w, w2) == workers' = (workers (-) SetToBag({w})) (+) SetToBag({w2})
Return(w) == workers' = workers (-) SetToBag({w})

\* tx.send(T::from(msg)); cap bounds the messages a channel holds in the model
Send(msg, cap) ==
    /\ Len(channel) < cap
    /\ channel' = Append(channel, msg)
    /\ unapplied' = unapplied + 1

\* the log panel and the library functions are exercised on their own
\* (SpecLogger, SpecWorkspace, SpecLib)
LibUnchanged == UNCHANGED <<logger, now, input, output>>

AppUnchanged ==
    /\ UNCHANGED <<workspaces, active_workspace_idx, syncing_repos, error_repos,
                   pending_git_loads, is_searching, first_startup>>
    /\ LibUnchanged

\* the errors git fetch / pull / push can end with (stderr of the subprocess)
GitErrors ==
    {"Connection closed", "Connection refused",
     "Could not read from remote repository", "Authentication failed"}

\* mutant of IsTransient: every failure counts as transient
IsTransientAlways(error_str) == error_str # ""

\* error_str.contains(..) || error_str.contains(..) || error_str.contains(..)
IsTransient(error_str) ==
    error_str \in {"Connection closed", "Connection refused",
                   "Could not read from remote repository"}

\* what get_git_info fails with
QueryError == "is not a git repository"

\* the results of get_git_info: Ok(git_info) or Err(QueryError)
QueryFailed == [ok |-> FALSE, info |-> GitInfoDefault]
QueryResults == {[ok |-> TRUE, info |-> g] : g \in GitInfos} \cup {QueryFailed}

(***************************************************************************)
(* refresh_repo_status_async                                               *)
(***************************************************************************)
refresh_repo_status_async(repo_path) == Thread("Refresh", repo_path, "query")

\* match get_git_info(&repo_path) { Ok(..) => send, Err(..) => send }
RefreshDone(w, cap) ==
    /\ IsRefresh(w) /\ w.pc = "query"
    /\ \E q \in QueryResults :
         IF q.ok THEN Send(RepoStatusUpdated(w.path, q.info), cap)
         ELSE Send(ErrorMsg("Git error for {:?}: {}", w.path, 0, 0, QueryError), cap)
    /\ Return(w)
    /\ UNCHANGED pool
    /\ AppUnchanged

(***************************************************************************)
(* git_pull_fast_async, git_push_fast_async, git_fetch_fast_async          *)
(***************************************************************************)
git_fast_async(kind, repo_path) == Thread(kind, repo_path, "start")

\* let _guard = PoolGuard::acquire(); then git_pull / git_push / git_fetch starts
FastAcquire(w) ==
    /\ IsFast(w) /\ w.pc = "start"
    /\ LET r == acquire(pool) IN
         /\ pool' = r.pool
         /\ Become(w, [w EXCEPT !.pc = "mutate", !.guard = r.guard])
    /\ UNCHANGED <<channel, unapplied>>
    /\ AppUnchanged

\* the format string of the message after a failed mutation
FailedFmt(kind) ==
    CASE kind = "pull" -> "Pull failed for {:?}: {}"
      [] kind = "push" -> "Push failed for {:?}: {}"
      [] kind = "fetch" -> "Fetch failed for {:?}: {}"

\* the message after a mutation that returned Err(e)
FailedMessage(kind, repo_path, e) == ErrorMsg(FailedFmt(kind), repo_path, 0, 0, e)

\* the message after the get_git_info that follows a successful mutation
QueriedMessage(kind, repo_path, q) ==
    IF q.ok THEN RepoStatusUpdated(repo_path, q.info)
    ELSE ErrorMsg("Failed to get git info after " \o kind \o " for {:?}: {}", repo_path,
                  0, 0, QueryError)

\* mutant of FastMutationDone: after sending the error the thread does not
\* end and goes on to get_git_info
FastMutationDoneFallsThrough(w, cap) ==
    /\ IsFast(w) /\ w.pc = "mutate"
    /\ \/ /\ Become(w, [w EXCEPT !.pc = "query"])
          /\ UNCHANGED <<pool, channel, unapplied>>
       \/ /\ \E e \in GitErrors : Send(FailedMessage(w.kind, w.path, e), cap)
          /\ Become(w, [w EXCEPT !.pc = "query"])
          /\ UNCHANGED pool
    /\ AppUnchanged

\* git_pull / git_push / git_fetch returns: on Ok the thread goes on to
\* get_git_info; on Err it sends the error and ends, and _guard is dropped
FastMutationDone(w, cap) ==
    /\ IsFast(w) /\ w.pc = "mutate"
    /\ \/ /\ Become(w, [w EXCEPT !.pc = "query"])
          /\ UNCHANGED <<pool, channel, unapplied>>
       \/ /\ \E e \in GitErrors : Send(FailedMessage(w.kind, w.path, e), cap)
          /\ pool' = drop(pool, w.guard)
          /\ Return(w)
    /\ AppUnchanged

\* get_git_info returns: its result is sent, the thread ends, _guard is dropped
FastQueryDone(w, cap) ==
    /\ IsFast(w) /\ w.pc = "query"
    /\ \E q \in QueryResults : Send(QueriedMessage(w.kind, w.path, q), cap)
    /\ pool' = drop(pool, w.guard)
    /\ Return(w)
    /\ AppUnchanged

(***************************************************************************)
(* git_fetch_fast_async_with_retry, called from the thread that the        *)
(* fetch-all handler spawns per repository (pc "stagger": index * 200 ms)  *)
(***************************************************************************)
git_fetch_fast_async_with_retry(repo_path) == Thread("Retry", repo_path, "stagger")

\* the staggering thread calls git_fetch_fast_async_with_retry
RetryStaggerDone(w) ==
    /\ IsRetry(w) /\ w.pc = "stagger"
    /\ Become(w, [w EXCEPT !.pc = "acquire"])
    /\ UNCHANGED <<pool, channel, unapplied>>
    /\ AppUnchanged

\* mutant of LoopTop: attempt <= max_attempts instead of attempt < max_attempts
LoopTopOffByOne(w) ==
    IF w.attempt <= max_attempts
    THEN [w EXCEPT !.attempt = @ + 1, !.pc = "mutate"]
    ELSE [w EXCEPT !.pc = "exit"]

\* while attempt < max_attempts { attempt += 1; git_fetch .. }
LoopTop(w) ==
    IF w.attempt < max_attempts
    THEN [w EXCEPT !.attempt = @ + 1, !.pc = "mutate"]
    ELSE [w EXCEPT !.pc = "exit"]

\* try_acquire_with_timeout: one Self::acquire() of the polling loop
RetryPoll(w) ==
    /\ IsRetry(w) /\ w.pc = "acquire"
    /\ LET r == acquire(pool) IN
         /\ pool' = r.pool
         /\ IF r.guard
            THEN Become(w, LoopTop([w EXCEPT !.guard = TRUE]))
            ELSE Become(w, [w EXCEPT !.pc = "sleep"])
    /\ UNCHANGED <<channel, unapplied>>
    /\ AppUnchanged

TimeoutMsg(repo_path) ==
    ErrorMsg("Timeout waiting for available slot for {:?}", repo_path, 0, 0, "")

\* mutant of RetrySleepDone: after the timeout message the closure does not
\* return and goes on to the fetch loop without a permit
RetrySleepDoneNoReturn(w, cap) ==
    /\ IsRetry(w) /\ w.pc = "sleep"
    /\ \/ /\ Become(w, [w EXCEPT !.pc = "acquire"])
          /\ UNCHANGED <<channel, unapplied>>
       \/ /\ Send(TimeoutMsg(w.path), cap)
          /\ Become(w, LoopTop([w EXCEPT !.posted = Append(@, Summary(TimeoutMsg(w.path)))]))
    /\ UNCHANGED pool
    /\ AppUnchanged

\* try_acquire_with_timeout: the 10 ms sleep is over; either the 5000 ms have
\* not elapsed and the loop polls again, or they have: None, the timeout
\* message is sent and the closure returns
RetrySleepDone(w, cap) ==
    /\ IsRetry(w) /\ w.pc = "sleep"
    /\ \/ /\ Become(w, [w EXCEPT !.pc = "acquire"])
          /\ UNCHANGED <<channel, unapplied>>
       \/ /\ Send(TimeoutMsg(w.path), cap)
          /\ Become(w, [w EXCEPT !.pc = "exit", !.posted = Append(@, Summary(TimeoutMsg(w.path)))])
    /\ UNCHANGED pool
    /\ AppUnchanged

RetryNotice(repo_path, attempt, delay_ms, error_str) ==
    ErrorMsg("Fetch failed for {:?} (attempt {}/{}), retrying in {}ms: {}", repo_path, attempt, delay_ms, error_str)

RetryExhausted(repo_path, error_str) ==
    ErrorMsg("Fetch failed for {:?} after {} attempts: {}", repo_path, max_attempts, 0, error_str)

\* mutant of RetryOnError: attempt <= max_attempts instead of attempt < max_attempts
RetryOnErrorOffByOne(w, error_str) ==
    IF IsTransient(error_str)
    THEN IF w.attempt <= max_attempts
         THEN [msg |-> RetryNotice(w.path, w.attempt, w.delay_ms, error_str),
               next |-> [w EXCEPT !.pc = "backoff"]]
         ELSE [msg |-> RetryExhausted(w.path, error_str),
               next |-> LoopTop(w)]
    ELSE [msg |-> ErrorMsg("Fetch failed for {:?}: {}", w.path, 0, 0, error_str),
          next |-> [w EXCEPT !.pc = "exit"]]

\* the Err arm of the match on the result of git_fetch: the message sent and
\* the thread after it
RetryOnError(w, error_str) ==
    IF IsTransient(error_str)
    THEN IF w.attempt < max_attempts
         THEN [msg |-> RetryNotice(w.path, w.attempt, w.delay_ms, error_str),
               next |-> [w EXCEPT !.pc = "backoff"]]
         ELSE [msg |-> RetryExhausted(w.path, error_str),
               next |-> LoopTop(w)]
    ELSE [msg |-> ErrorMsg("Fetch failed for {:?}: {}", w.path, 0, 0, error_str),
          next |-> [w EXCEPT !.pc = "exit"]]

\* git_fetch returns and the match on its result runs
RetryFetchDone(w, cap) ==
    /\ IsRetry(w) /\ w.pc = "mutate"
    /\ \/ /\ Become(w, [w EXCEPT !.pc = "query"])
          /\ UNCHANGED <<channel, unapplied>>
       \/ \E error_str \in GitErrors :
            LET r == RetryOnError(w, error_str) IN
              /\ Send(r.msg, cap)
              /\ Become(w, [r.next EXCEPT !.posted = Append(@, Summary(r.msg))])
    /\ UNCHANGED pool
    /\ AppUnchanged

\* mutant of RetryBackoffDone: the permit is given back for the sleep and the
\* next attempt runs without it
RetryBackoffDoneReleased(w) ==
    /\ IsRetry(w) /\ w.pc = "backoff"
    /\ Become(w, LoopTop([w EXCEPT !.delay_ms = @ * 2, !.guard = FALSE]))
    /\ pool' = drop(pool, w.guard)
    /\ UNCHANGED <<channel, unapplied>>
    /\ AppUnchanged

\* thread::sleep(delay_ms) is over: delay_ms *= 2 and back to the loop top
RetryBackoffDone(w) ==
    /\ IsRetry(w) /\ w.pc = "backoff"
    /\ Become(w, LoopTop([w EXCEPT !.delay_ms = @ * 2]))
    /\ UNCHANGED <<pool, channel, unapplied>>
    /\ AppUnchanged

\* get_git_info returns after a successful fetch: its result is sent; return
RetryQueryDone(w, cap) ==
    /\ IsRetry(w) /\ w.pc = "query"
    /\ \E q \in QueryResults :
         LET msg == QueriedMessage("fetch", w.path, q) IN
           /\ Send(msg, cap)
           /\ Become(w, [w EXCEPT !.pc = "exit", !.queries = @ + 1,
                                  !.posted = Append(@, Summary(msg))])
    /\ UNCHANGED pool
    /\ AppUnchanged

\* the closure returns: _guard goes out of scope and the thread ends
RetryReturn(w) ==
    /\ IsRetry(w) /\ w.pc = "exit"
    /\ pool' = drop(pool, w.guard)
    /\ Return(w)
    /\ UNCHANGED <<channel, unapplied>>
    /\ AppUnchanged

(***************************************************************************)
(* RepositorySearcher, run by the thread MyApp::add_repository spawns       *)
(***************************************************************************)
Paths == {PathA, PathB}

\* what find_git_repositories may return (the directory tree is the environment)
Batches == UNION {[1..n -> Paths] : n \in 0..MaxBatch}

SearchDone(w, cap) ==
    /\ IsSearch(w) /\ w.pc = "scan"
    /\ \E repos \in Batches : Send(ReposFound(repos), cap)
    /\ Return(w)
    /\ UNCHANGED pool
    /\ AppUnchanged

(***************************************************************************)
(* The owner thread: MyApp                                                 *)
(***************************************************************************)
ActiveExists == active_workspace_idx < Len(workspaces)
ActiveRepos == workspaces[active_workspace_idx + 1].repositories

RECURSIVE RefreshAll(_, _)
\* one refresh_repo_status_async per record, from position i on
RefreshAll(repositories, i) ==
    IF i > Len(repositories) THEN EmptyBag
    ELSE SetToBag({refresh_repo_status_async(repositories[i].path)})
         (+) RefreshAll(repositories, i + 1)

\* mutant of load_workspace: the is_loaded flag is not looked at
load_workspaceAgain(st, workspace_idx) ==
    IF workspace_idx >= Len(st.workspaces) THEN st
    ELSE LET workspace == st.workspaces[workspace_idx + 1] IN
         [st EXCEPT
             !.pending_git_loads = @ + Len(workspace.repositories),
             !.spawned = @ (+) RefreshAll(workspace.repositories, 1),
             !.workspaces[workspace_idx + 1].is_loaded = TRUE]

\* MyApp::load_workspace on the application state st
load_workspace(st, workspace_idx) ==
    IF workspace_idx >= Len(st.workspaces) THEN st
    ELSE LET workspace == st.workspaces[workspace_idx + 1] IN
         IF workspace.is_loaded THEN st
         ELSE [st EXCEPT
                 !.pending_git_loads = @ + Len(workspace.repositories),
                 !.spawned = @ (+) RefreshAll(workspace.repositories, 1),
                 !.workspaces[workspace_idx + 1].is_loaded = TRUE]

\* MyApp::switch_to_workspace on the application state st
switch_to_workspace(st, workspace_idx) ==
    IF workspace_idx >= Len(st.workspaces) THEN st
    ELSE load_workspace([st EXCEPT !.active_workspace_idx = workspace_idx],
                        workspace_idx)

\* the application state the handlers of update() work on; spawned collects
\* the threads they start, applied counts the messages they have handled,
\* pending_logs is the local vector of that name.  update() hands its entries
\* to the Logger at the end of the frame; the Logger is exercised on its own
\* in SpecLogger, and the log panel is not part of the other specifications
AppState ==
    [workspaces |-> workspaces, active_workspace_idx |-> active_workspace_idx,
     syncing_repos |-> syncing_repos, error_repos |-> error_repos,
     pending_git_loads |-> pending_git_loads, is_searching |-> is_searching,
     spawned |-> EmptyBag, applied |-> 0, pending_logs |-> <<>>]

Commit(st) ==
    /\ workspaces' = st.workspaces
    /\ active_workspace_idx' = st.active_workspace_idx
    /\ syncing_repos' = st.syncing_repos
    /\ error_repos' = st.error_repos
    /\ pending_git_loads' = st.pending_git_loads
    /\ is_searching' = st.is_searching
    /\ workers' = workers (+) st.spawned
    /\ LibUnchanged

\* update(), first frame: if self.first_startup { .. load_workspace(active) .. }
FirstUpdate ==
    /\ first_startup
    /\ first_startup' = FALSE
    /\ Commit(IF workspaces # <<>>
              THEN load_workspace(AppState, active_workspace_idx)
              ELSE AppState)
    /\ UNCHANGED <<pool, channel, unapplied>>

\* mutant of UpdateFirstFound: a path no workspace holds gets a record in
\* the first workspace
RECURSIVE UpdateFirstFoundOrAdd(_, _, _, _)
UpdateFirstFoundOrAdd(wss, repo_path, git_info, k) ==
    IF k > Len(wss)
    THEN IF wss = <<>> THEN wss
         ELSE [wss EXCEPT ![1].repositories =
                   Append(@, [path |-> repo_path, git_info |-> git_info])]
    ELSE LET i == find_repository_mut(wss[k].repositories, repo_path, 1) IN
         IF i # 0 THEN [wss EXCEPT ![k].repositories[i].git_info = git_info]
         ELSE UpdateFirstFoundOrAdd(wss, repo_path, git_info, k + 1)

\* mutant of UpdateFirstFound: no break, the record of the path is updated
\* in every workspace that holds it
RECURSIVE UpdateEveryFound(_, _, _, _)
UpdateEveryFound(wss, repo_path, git_info, k) ==
    IF k > Len(wss) THEN wss
    ELSE LET i == find_repository_mut(wss[k].repositories, repo_path, 1) IN
         IF i # 0
         THEN UpdateEveryFound([wss EXCEPT ![k].repositories[i].git_info = git_info],
                               repo_path, git_info, k + 1)
         ELSE UpdateEveryFound(wss, repo_path, git_info, k + 1)

\* for workspace in &mut self.config.workspaces { if let Some(repo) =
\* workspace.find_repository_mut(&repo_path) { repo.update_git_info(..); break } }
RECURSIVE UpdateFirstFound(_, _, _, _)
UpdateFirstFound(wss, repo_path, git_info, k) ==
    IF k > Len(wss) THEN wss
    ELSE LET i == find_repository_mut(wss[k].repositories, repo_path, 1) IN
         IF i # 0 THEN [wss EXCEPT ![k].repositories[i].git_info = git_info]
         ELSE UpdateFirstFound(wss, repo_path, git_info, k + 1)

\* for repo_path in repos { if workspace.add_repository(..) { repos_to_refresh.push(..) } }
RECURSIVE AddFound(_, _, _)
AddFound(ws, repos, i) ==
    IF i > Len(repos) THEN [workspace |-> ws, repos_to_refresh |-> <<>>]
    ELSE LET added == ~HasPath(ws.repositories, repos[i])
             rest == AddFound(add_repository(ws, repos[i]), repos, i + 1) IN
         [rest EXCEPT !.repos_to_refresh =
              IF added THEN <<repos[i]>> \o @ ELSE @]

RECURSIVE RefreshPaths(_, _)
RefreshPaths(paths, i) ==
    IF i > Len(paths) THEN EmptyBag
    ELSE SetToBag({refresh_repo_status_async(paths[i])}) (+) RefreshPaths(paths, i + 1)

\* PathBuf::file_name: what follows the last '/', <<>> for None
file_name(path) ==
    LET slashes == {i \in 1..Len(path) : path[i] = "/"}
        last == IF slashes = {} THEN 0
                ELSE CHOOSE i \in slashes : \A j \in slashes : j <= i
    IN  SubSeq(path, last + 1, Len(path))

\* one element of pending_logs: the level, and the format string or the key
\* of the translation with its arguments
LogLine(level, key, args) == [level |-> level, key |-> key, args |-> args]

\* the GitMessage::Error arm of `match msg`
ErrorArm(st, text) ==
    LET logged == [st EXCEPT !.pending_logs =
                       Append(@, LogLine("Error", "Git error: {}", <<text>>))]
        path == QuotedPath(text.body)
    IN  IF path = NoPath THEN logged
        ELSE [logged EXCEPT !.syncing_repos = @ \ {path},
                            !.error_repos = @ \cup {path}]

\* one arm of `match msg` in update()
HandleMessage(st, msg) ==
    LET counted == [st EXCEPT !.applied = @ + 1] IN
    IF msg.type = "RepoStatusUpdated" THEN
        LET remaining == IF st.pending_git_loads > 0 THEN st.pending_git_loads - 1
                         ELSE st.pending_git_loads
            repo_name == file_name(msg.repo_path)
        IN  [counted EXCEPT
                !.syncing_repos = @ \ {msg.repo_path},
                !.error_repos = @ \ {msg.repo_path},
                !.pending_git_loads = remaining,
                !.pending_logs =
                    IF repo_name = <<>> THEN @
                    ELSE IF remaining = 0
                    THEN Append(@, LogLine("Info", "repo_loaded_last", <<repo_name>>))
                    ELSE Append(@, LogLine("Info", "repo_loaded_remaining",
                                           <<repo_name, remaining>>)),
                !.workspaces = UpdateFirstFound(@, msg.repo_path, msg.git_info, 1)]
    ELSE IF msg.type = "Error" THEN ErrorArm(counted, msg.text)
    ELSE \* ReposFound
        IF st.active_workspace_idx < Len(st.workspaces)
        THEN LET r == AddFound(st.workspaces[st.active_workspace_idx + 1], msg.repos, 1)
                 added_count == Len(r.repos_to_refresh)
             IN  [counted EXCEPT
                     !.is_searching = FALSE,
                     !.workspaces[st.active_workspace_idx + 1] = r.workspace,
                     !.spawned = @ (+) RefreshPaths(r.repos_to_refresh, 1),
                     !.pending_logs =
                         IF added_count > 0
                         THEN Append(@, LogLine("Info", "added_repos_log", <<added_count>>))
                         ELSE Append(@, LogLine("Warning", "no_new_repos_log", <<>>))]
        ELSE [counted EXCEPT
                 !.is_searching = FALSE,
                 !.pending_logs = Append(@, LogLine("Warning", "no_new_repos_log", <<>>))]

\* for msg in messages { match msg { .. } }
RECURSIVE HandleAll(_, _, _)
HandleAll(st, messages, i) ==
    IF i > Len(messages) THEN st
    ELSE HandleAll(HandleMessage(st, messages[i]), messages, i + 1)

\* mutant of try_recv_all: one try_recv per frame instead of the loop
try_recv_once(ch) == [messages |-> <<Head(ch)>>, rest |-> Tail(ch)]

\* while let Ok(msg) = rx.try_recv() { messages.push(msg) }: what is received
\* and what stays in the channel
try_recv_all(ch) == [messages |-> ch, rest |-> <<>>]

\* update(): the channel is drained and every received message is handled
Drain ==
    /\ ~first_startup
    /\ channel # <<>>
    /\ LET r == try_recv_all(channel)
           st == HandleAll(AppState, r.messages, 1) IN
         /\ channel' = r.rest
         /\ unapplied' = unapplied - st.applied
         /\ Commit(st)
    /\ UNCHANGED <<pool, first_startup>>

(***************************************************************************)
(* update(): the handlers of the widgets                                   *)
(***************************************************************************)
Rendered(i) == ~first_startup /\ ActiveExists /\ i \in 0..(Len(ActiveRepos) - 1)

\* the fetch button of a repository row (and the fetch entry of its menu)
FetchClicked(i) ==
    /\ Rendered(i)
    /\ syncing_repos' = syncing_repos \cup {ActiveRepos[i + 1].path}
    /\ Spawn(SetToBag({git_fast_async("fetch", ActiveRepos[i + 1].path)}))
    /\ UNCHANGED <<pool, channel, unapplied, workspaces, active_workspace_idx,
                   error_repos, pending_git_loads, is_searching, first_startup>>
    /\ LibUnchanged

\* the pull button, shown if repo.git_info.behind > 0
PullClicked(i) ==
    /\ Rendered(i)
    /\ ActiveRepos[i + 1].git_info.behind > 0
    /\ syncing_repos' = syncing_repos \cup {ActiveRepos[i + 1].path}
    /\ Spawn(SetToBag({git_fast_async("pull", ActiveRepos[i + 1].path)}))
    /\ UNCHANGED <<pool, channel, unapplied, workspaces, active_workspace_idx,
                   error_repos, pending_git_loads, is_searching, first_startup>>
    /\ LibUnchanged

\* the push button, shown if repo.git_info.ahead > 0
PushClicked(i) ==
    /\ Rendered(i)
    /\ ActiveRepos[i + 1].git_info.ahead > 0
    /\ syncing_repos' = syncing_repos \cup {ActiveRepos[i + 1].path}
    /\ Spawn(SetToBag({git_fast_async("push", ActiveRepos[i + 1].path)}))
    /\ UNCHANGED <<pool, channel, unapplied, workspaces, active_workspace_idx,
                   error_repos, pending_git_loads, is_searching, first_startup>>
    /\ LibUnchanged

\* the refresh entry of the repository menu
RefreshClicked(i) ==
    /\ Rendered(i)
    /\ error_repos' = error_repos \ {ActiveRepos[i + 1].path}
    /\ Spawn(SetToBag({refresh_repo_status_async(ActiveRepos[i + 1].path)}))
    /\ UNCHANGED <<pool, channel, unapplied, workspaces, active_workspace_idx,
                   syncing_repos, pending_git_loads, is_searching, first_startup>>
    /\ LibUnchanged

RECURSIVE RetryAll(_, _)
RetryAll(repositories, i) ==
    IF i > Len(repositories) THEN EmptyBag
    ELSE SetToBag({git_fetch_fast_async_with_retry(repositories[i].path)})
         (+) RetryAll(repositories, i + 1)

\* if should_fetch_all { .. }
FetchAllClicked ==
    /\ ~first_startup
    /\ ActiveExists
    /\ syncing_repos' = syncing_repos \cup
           {ActiveRepos[i].path : i \in 1..Len(ActiveRepos)}
    /\ Spawn(RetryAll(ActiveRepos, 1))
    /\ UNCHANGED <<pool, channel, unapplied, workspaces, active_workspace_idx,
                   error_repos, pending_git_loads, is_searching, first_startup>>
    /\ LibUnchanged

\* the remove entry of the repository menu: workspace.remove_repository(idx)
RemoveClicked(i) ==
    /\ Rendered(i)
    /\ workspaces' = [workspaces EXCEPT ![active_workspace_idx + 1] =
                          remove_repository(@, i)]
    /\ UNCHANGED <<pool, workers, channel, unapplied, active_workspace_idx,
                   syncing_repos, error_repos, pending_git_loads, is_searching,
                   first_startup>>
    /\ LibUnchanged

\* a folder is dropped on the window: MyApp::add_repository(path)
FolderDropped(path) ==
    /\ ~first_startup
    /\ workspaces' = IF workspaces = <<>>
                     THEN <<[repositories |-> <<>>, is_loaded |-> FALSE]>>
                     ELSE workspaces
    /\ active_workspace_idx' = IF workspaces = <<>> THEN 0 ELSE active_workspace_idx
    /\ is_searching' = TRUE
    /\ Spawn(SetToBag({Thread("Search", path, "scan")}))
    /\ UNCHANGED <<pool, channel, unapplied, syncing_repos, error_repos,
                   pending_git_loads, first_startup>>
    /\ LibUnchanged

\* a workspace other than the active one is selected: switch_to_workspace(idx)
WorkspaceSelected(workspace_idx) ==
    /\ ~first_startup
    /\ workspace_idx \in 0..(Len(workspaces) - 1)
    /\ workspace_idx # active_workspace_idx
    /\ Commit(load_workspace([AppState EXCEPT !.active_workspace_idx = workspace_idx],
                             workspace_idx))
    /\ UNCHANGED <<pool, channel, unapplied, first_startup>>
    /\ LibUnchanged

(***************************************************************************)
(* Specifications                                                          *)
(***************************************************************************)
Workspace(paths) ==
    [repositories |-> [i \in 1..Len(paths) |-> RepositoryState(paths[i])],
     is_loaded |-> FALSE]

\* the state after MyApp::load_or_default and setup_git_communication, with
\* config.workspaces as read from the configuration file
InitWith(wss) ==
    /\ pool = PoolSize
    /\ workers = EmptyBag
    /\ channel = <<>>
    /\ workspaces = wss
    /\ active_workspace_idx = 0
    /\ syncing_repos = {}
    /\ error_repos = {}
    /\ pending_git_loads = 0
    /\ is_searching = FALSE
    /\ first_startup = TRUE
    /\ unapplied = 0
    /\ logger = Logger(max_logs_default)
    /\ now = 0
    /\ input = NoInput
    /\ output = <<>>

\* the same state, with a library function about to be called on the
\* arguments args
InitCalling(args) ==
    /\ pool = PoolSize
    /\ workers = EmptyBag
    /\ channel = <<>>
    /\ workspaces = <<>>
    /\ active_workspace_idx = 0
    /\ syncing_repos = {}
    /\ error_repos = {}
    /\ pending_git_loads = 0
    /\ is_searching = FALSE
    /\ first_startup = TRUE
    /\ unapplied = 0
    /\ logger = Logger(max_logs_default)
    /\ now = 0
    /\ input = args
    /\ output = <<>>

Room == CountLive(IsAny) < MaxThreads
Fits == BagCardinality(workers') <= MaxThreads

\* Spec: one workspace with one repository, which the user refreshes and fetches
Init == InitWith(<<Workspace(<<PathA>>)>>)

Next ==
    \/ FirstUpdate
    \/ Drain
    \/ Room /\ \E i \in {0} : RefreshClicked(i)
    \/ Room /\ \E i \in {0} : FetchClicked(i)
    \/ \E w \in Live : RefreshDone(w, MaxChannel)
    \/ \E w \in Live : FastAcquire(w)
    \/ \E w \in Live : FastMutationDone(w, MaxChannel)
    \/ \E w \in Live : FastQueryDone(w, MaxChannel)

Spec == Init /\ [][Next]_vars

\* SpecFast: one workspace with one repository, which the user pulls, pushes
\* and fetches
NextFast ==
    \/ FirstUpdate
    \/ Drain
    \/ Room /\ \E i \in {0} : PullClicked(i)
    \/ Room /\ \E i \in {0} : PushClicked(i)
    \/ Room /\ \E i \in {0} : FetchClicked(i)
    \/ \E w \in Live : RefreshDone(w, MaxQueued)
    \/ \E w \in Live : FastAcquire(w)
    \/ \E w \in Live : FastMutationDone(w, MaxQueued)
    \/ \E w \in Live : FastQueryDone(w, MaxQueued)

SpecFast == Init /\ [][NextFast]_vars

\* SpecFound: no workspace, or one with two repositories; folders are dropped
\* on the window and repositories removed
InitFound ==
    \E wss \in {<<>>, <<Workspace(<<PathA, PathB>>)>>} : InitWith(wss)

NextFound ==
    \/ FirstUpdate
    \/ Drain /\ Fits
    \/ \E i \in 0..1 : RemoveClicked(i)
    \/ Room /\ FolderDropped(PathA)
    \/ \E w \in Live : RefreshDone(w, MaxQueued)
    \/ \E w \in Live : SearchDone(w, MaxQueued)

SpecFound == InitFound /\ [][NextFound]_vars

\* SpecPool: one workspace with one repository; the user clicks fetch and
\* fetch-all often enough to exhaust the pool
InitPool == InitWith(<<Workspace(<<PathA>>)>>)

NextPool ==
    \/ FirstUpdate
    \/ Drain
    \/ /\ CountLive(IsAny) < MaxPoolThreads
       /\ \E i \in {0} : FetchClicked(i)
    \/ /\ CountLive(IsAny) < MaxPoolThreads
       /\ CountLive(IsRetry) < MaxPoolRetry
       /\ FetchAllClicked
    \/ \E w \in Live : RefreshDone(w, MaxQueued)
    \/ \E w \in Live : FastAcquire(w)
    \/ \E w \in Live : FastMutationDone(w, MaxQueued)
    \/ \E w \in Live : FastQueryDone(w, MaxQueued)
    \/ \E w \in Live : RetryStaggerDone(w)
    \/ \E w \in Live : RetryPoll(w)
    \/ \E w \in Live : RetrySleepDone(w, MaxQueued)
    \/ \E w \in Live : RetryFetchDone(w, MaxQueued)
    \/ \E w \in Live : RetryBackoffDone(w)
    \/ \E w \in Live : RetryQueryDone(w, MaxQueued)
    \/ \E w \in Live : RetryReturn(w)

SpecPool == InitPool /\ [][NextPool]_vars

\* SpecLoad: two workspaces, of one and of two repositories; after the first
\* frame load_workspace and switch_to_workspace are called on indexes in and
\* out of range; output lists the calls
MaxLoadCalls == 3
MaxLoadIndex == 2       \* SpecLoad: the indexes the calls are made on, from 0

InitLoad == InitWith(<<Workspace(<<PathA>>), Workspace(<<PathA, PathB>>)>>)

LoadCalled(fn, workspace_idx, st) ==
    /\ ~first_startup
    /\ Len(output) < MaxLoadCalls
    /\ output' = Append(output, [fn |-> fn, arg |-> workspace_idx])
    /\ workspaces' = st.workspaces
    /\ active_workspace_idx' = st.active_workspace_idx
    /\ pending_git_loads' = st.pending_git_loads
    /\ workers' = workers (+) st.spawned
    /\ UNCHANGED <<pool, channel, unapplied, syncing_repos, error_repos,
                   is_searching, first_startup, logger, now, input>>

CallLoadWorkspace(workspace_idx) ==
    LoadCalled("load_workspace", workspace_idx,
               load_workspace(AppState, workspace_idx))

CallSwitchToWorkspace(workspace_idx) ==
    LoadCalled("switch_to_workspace", workspace_idx,
               switch_to_workspace(AppState, workspace_idx))

NextLoad ==
    \/ FirstUpdate
    \/ Drain
    \/ \E workspace_idx \in 0..MaxLoadIndex : CallLoadWorkspace(workspace_idx)
    \/ \E workspace_idx \in 0..MaxLoadIndex : CallSwitchToWorkspace(workspace_idx)
    \/ \E w \in Live : RefreshDone(w, MaxChannel)

SpecLoad == InitLoad /\ [][NextLoad]_vars

\* SpecDiscovery: two workspaces without repositories; the user drops folders
\* on the window while the first workspace is the active one, and switches
\* between the two workspaces at any time
InitDiscovery == InitWith(<<Workspace(<<>>), Workspace(<<>>)>>)

NextDiscovery ==
    \/ FirstUpdate
    \/ Drain /\ Fits
    \/ Room /\ active_workspace_idx = 0 /\ FolderDropped(PathA)
    \/ \E workspace_idx \in 0..1 : WorkspaceSelected(workspace_idx)
    \/ \E w \in Live : RefreshDone(w, MaxQueued)
    \/ \E w \in Live : SearchDone(w, MaxQueued)

SpecDiscovery == InitDiscovery /\ [][NextDiscovery]_vars

\* SpecMarks: one workspace with one repository, whose directory name is plain
\* or holds a backslash; the user refreshes and fetches it
InitMarks == \E p \in {PathA, PathC} : InitWith(<<Workspace(<<p>>)>>)

SpecMarks == InitMarks /\ [][Next]_vars

\* SpecMarksFair: the same, with update() called frame after frame while
\* messages wait and every thread running on until it ends; the user may
\* stop clicking
SpecMarksFair ==
    /\ InitMarks /\ [][Next]_vars
    /\ WF_vars(Drain)
    /\ WF_vars(\E w \in Live : RefreshDone(w, MaxChannel))
    /\ WF_vars(\E w \in Live : FastAcquire(w))
    /\ WF_vars(\E w \in Live : FastMutationDone(w, MaxChannel))
    /\ WF_vars(\E w \in Live : FastQueryDone(w, MaxChannel))

(***************************************************************************)
(* Steps, as the properties below read them                                *)
(***************************************************************************)
\* thread w takes this step
Steps(w) == CopiesIn(w, workers') < CopiesIn(w, workers)

\* thread w takes this step and is the thread w2 after it
Becomes(w, w2) == workers' = (workers (-) SetToBag({w})) (+) SetToBag({w2})

\* thread w takes this step and ends
Ends(w) == workers' = workers (-) SetToBag({w})

\* this step appends one message to the channel
SendsOne == Len(channel') = Len(channel) + 1 /\ SubSeq(channel', 1, Len(channel)) = channel
Sent == channel'[Len(channel')]

(***************************************************************************)
(* Properties of the channel (Spec)                                        *)
(***************************************************************************)
\* a step of a refresh thread posts one message, the status of its path or
\* an error, and ends the thread
RefreshStep ==
    \A w \in Live :
        IsRefresh(w) /\ Steps(w) =>
            /\ SendsOne
            /\ \/ \E g \in GitInfos : Sent = RepoStatusUpdated(w.path, g)
               \/ Sent = ErrorMsg("Git error for {:?}: {}", w.path, 0, 0, QueryError)
            /\ Ends(w)

\* a step that starts a refresh thread posts nothing: the dispatch returns
\* with the query still to run
DispatchStep ==
    \A t \in BagToSet(workers') :
        IsRefresh(t) /\ CopiesIn(t, workers') > CopiesIn(t, workers) =>
            /\ t.pc = "query"
            /\ Len(channel') <= Len(channel)

\* a step that receives from the channel leaves it empty: one drain takes
\* every message available
DrainStep == Len(channel') < Len(channel) => channel' = <<>> /\ unapplied' = 0

\* C8: a refresh dispatch returns at once and gives exactly one message
\* (RepoStatusUpdated for the path, or an Error); every message sent is
\* applied exactly once (sent minus applied is what the channel holds); one
\* drain removes all messages available
OneMessageAppliedOnce ==
    /\ [](unapplied = Len(channel))
    /\ [][RefreshStep /\ DispatchStep /\ DrainStep]_vars

\* witness of C8: two refresh threads have ended, each with one message, and
\* both messages are in the channel for the next drain
TwoRefreshMessagesAvailable ==
    /\ workers = EmptyBag
    /\ Len(channel) = 2
    /\ channel[1].type = "RepoStatusUpdated" /\ channel[1].repo_path = PathA
    /\ channel[2] = ErrorMsg("Git error for {:?}: {}", PathA, 0, 0, QueryError)

(***************************************************************************)
(* Properties of the pull, push and fetch threads (SpecFast)               *)
(***************************************************************************)
\* the text of the Error after a failed pull, push or fetch
FailedText ==
    [kind \in {"pull", "push", "fetch"} |->
        IF kind = "pull" THEN "Pull failed for {:?}: {}"
        ELSE IF kind = "push" THEN "Push failed for {:?}: {}" ELSE "Fetch failed for {:?}: {}"]

\* the thread w ends in this step and its permit, if it holds one, is back
EndsAndReleases(w) ==
    /\ Ends(w)
    /\ pool' = IF w.guard THEN pool + 1 ELSE pool

\* a step of a pull, push or fetch thread: nothing is posted before the
\* mutation ends; a failed mutation posts the error with its text and ends
\* the thread, which never runs a status query; a successful one leads to the
\* status query, whose result (RepoStatusUpdated or an Error) is the one
\* message, and the thread ends
FastStep ==
    \A w \in Live :
        IsFast(w) /\ Steps(w) =>
            CASE w.pc = "start" ->
                    /\ channel' = channel
                    /\ \E g \in BOOLEAN : Becomes(w, [w EXCEPT !.pc = "mutate", !.guard = g])
              [] w.pc = "mutate" ->
                    \/ /\ channel' = channel
                       /\ pool' = pool
                       /\ Becomes(w, [w EXCEPT !.pc = "query"])
                    \/ /\ SendsOne
                       /\ \E e \in GitErrors :
                              Sent = ErrorMsg(FailedText[w.kind], w.path, 0, 0, e)
                       /\ EndsAndReleases(w)
              [] w.pc = "query" ->
                    /\ SendsOne
                    /\ \/ \E g \in GitInfos : Sent = RepoStatusUpdated(w.path, g)
                       \/ Sent = ErrorMsg("Failed to get git info after " \o w.kind \o " for {:?}: {}",
                                          w.path, 0, 0, QueryError)
                    /\ EndsAndReleases(w)

\* C9: a pull, push or fetch dispatch posts exactly one message: after a
\* successful mutation the result of the status query, after a failed one an
\* Error with the error text and no status query; the permit is released
\* when the thread ends
FastPostsOneMessage == [][FastStep]_vars

\* witness of C9: a pull has failed, its thread has posted the error and
\* ended, and all permits are back
PullFailedAndReleased ==
    /\ workers = EmptyBag
    /\ pool = 8
    /\ channel = <<ErrorMsg("Pull failed for {:?}: {}", PathA, 0, 0, "Authentication failed")>>

(***************************************************************************)
(* Properties of the workspaces (SpecFound)                                *)
(***************************************************************************)
\* C10: no workspace holds two records with the same path, whatever folders
\* are dropped, batches found and repositories removed
NoDuplicatePaths ==
    \A k \in 1..Len(workspaces) :
        LET repositories == workspaces[k].repositories IN
        \A i, j \in 1..Len(repositories) :
            i # j => repositories[i].path # repositories[j].path

\* witness of C10: a repository was removed and found again, and a batch that
\* repeats a path the workspace holds is about to be handled
RefoundAndRepeatingBatch ==
    /\ Len(workspaces) = 1
    /\ Len(workspaces[1].repositories) = 2
    /\ workspaces[1].repositories[1].path = PathB
    /\ workspaces[1].repositories[2].path = PathA
    /\ channel = <<ReposFound(<<PathA, PathA>>)>>

\* the path is the path of no record of any workspace
InNoWorkspace(path) ==
    \A k \in 1..Len(workspaces) :
        \A i \in 1..Len(workspaces[k].repositories) :
            workspaces[k].repositories[i].path # path

\* C16: a drain whose messages are all RepoStatusUpdated for paths that no
\* workspace holds consumes them and leaves the workspaces, that is every
\* sequence of records and every status, as they were.
OrphanStatusStep ==
    ( /\ channel # <<>>
      /\ Len(channel') < Len(channel)
      /\ \A i \in 1..Len(channel) :
             channel[i].type = "RepoStatusUpdated" /\ InNoWorkspace(channel[i].repo_path) )
    => /\ channel' = <<>>
       /\ unapplied' = unapplied - Len(channel)
       /\ workspaces' = workspaces

OrphanStatusIgnored == [][OrphanStatusStep]_vars

\* repository a was removed while its refresh was in flight: its status has
\* arrived, and the workspace holds b alone, with a status of its own
OrphanStatusArrived ==
    /\ ~first_startup
    /\ Len(workspaces) = 1
    /\ Len(workspaces[1].repositories) = 1
    /\ workspaces[1].repositories[1].path = PathB
    /\ workspaces[1].repositories[1].git_info \in GitInfos
    /\ Len(channel) = 1
    /\ channel[1].type = "RepoStatusUpdated" /\ channel[1].repo_path = PathA

(***************************************************************************)
(* Properties of the operation pool (SpecPool)                             *)
(***************************************************************************)
HoldsPermit(w) == w.guard
RunsMutation(w) == w.pc = "mutate"
UsesPool(w) == IsFast(w) \/ IsRetry(w)

\* C1: in every reachable state the number of live PoolGuard values is at
\* most 8, however acquire, try_acquire_with_timeout and the drops interleave
PermitsAtMostEight == CountLive(HoldsPermit) <= 8

\* witness of C1: 8 permits are live and a thread has been refused one
PoolExhaustedAndRefused ==
    /\ CountLive(HoldsPermit) = 8
    /\ \E w \in Live : w.pc \in {"mutate", "sleep"} /\ ~w.guard

\* C2: at every moment at most 8 git mutation subprocesses (git pull, git
\* push, git fetch) of the dispatched operations are running
MutationsAtMostEight == CountLive(RunsMutation) <= 8

\* C3: every thread that obtained a permit returns it however it ends: the
\* tokens in the pool and the live permits always add up to 8, and once no
\* thread that uses the pool is left all 8 tokens are free and a further
\* acquire succeeds
PermitsReturned ==
    /\ pool + CountLive(HoldsPermit) = 8
    /\ CountLive(UsesPool) = 0 => pool = 8 /\ acquire(pool).guard

\* witness of C3: every thread has ended, the last after exhausting its
\* retries with a permit in hand, and the pool is full again
AllEndedAfterExhaustedRetries ==
    /\ workers = EmptyBag
    /\ pool = 8
    /\ \E i \in 1..Len(channel) : channel[i].text.fmt = "Fetch failed for {:?} after {} attempts: {}"

(***************************************************************************)
(* Properties of git_fetch_fast_async_with_retry (SpecPool)                *)
(***************************************************************************)
TransientPatterns ==
    {"Connection closed", "Connection refused", "Could not read from remote repository"}

\* the history entry of the retry notice after attempt k
NoticeAfter(k) ==
    [fmt |-> "Fetch failed for {:?} (attempt {}/{}), retrying in {}ms: {}", attempt |-> k,
     delay_ms |-> 1000 * 2^(k - 1)]

\* a fetch of the retrying thread w ends in this step with error text e
FetchFails(w, e) ==
    /\ IsRetry(w) /\ w.pc = "mutate" /\ Steps(w)
    /\ SendsOne /\ Sent.type = "Error" /\ Sent.text.err = e

\* C4, the step: a transient failure of attempt 1 or 2 posts one retry notice
\* carrying the attempt and the delay 1000 ms, then 2000 ms, and the thread
\* backs off; a transient failure of attempt 3 posts the final failure,
\* after exactly the two notices, and the thread is done
TransientFailureStep ==
    \A w \in Live : \A e \in TransientPatterns :
        FetchFails(w, e) =>
            IF w.attempt < 3
            THEN /\ Sent = RetryNotice(w.path, w.attempt, 1000 * 2^(w.attempt - 1), e)
                 /\ Becomes(w, [w EXCEPT !.pc = "backoff",
                                         !.posted = Append(@, NoticeAfter(w.attempt))])
            ELSE /\ Sent = RetryExhausted(w.path, e)
                 /\ w.posted = <<NoticeAfter(1), NoticeAfter(2)>>
                 /\ \E w2 \in BagToSet(workers') :
                        /\ Becomes(w, w2)
                        /\ w2.pc = "exit" /\ w2.attempt = 3

\* C4: three consecutive transient failures give exactly 2 retry notices
\* (delays 1000 ms, 2000 ms), then one final failure, and no fourth attempt
ThreeTransientFailures ==
    /\ [](\A w \in Live : IsRetry(w) => w.attempt <= 3)
    /\ [][TransientFailureStep]_vars

\* witness of C4: a thread has ended after notices 1 and 2 and the final failure
ExhaustedAfterTwoNotices ==
    \E w \in Live :
        /\ IsRetry(w) /\ w.pc = "exit" /\ w.attempt = 3
        /\ Len(w.posted) = 3
        /\ w.posted[1] = NoticeAfter(1) /\ w.posted[2] = NoticeAfter(2)
        /\ w.posted[3].fmt = "Fetch failed for {:?} after {} attempts: {}"

\* C5, the step: a failure that matches no transient pattern posts one
\* failure message and the thread is done, with no further attempt
OtherFailureStep ==
    \A w \in Live : \A e \in GitErrors \ TransientPatterns :
        FetchFails(w, e) =>
            /\ Sent = ErrorMsg("Fetch failed for {:?}: {}", w.path, 0, 0, e)
            /\ Becomes(w, [w EXCEPT !.pc = "exit",
                                    !.posted = Append(@, Summary(Sent))])

\* a thread that is done only returns: no message, no further attempt
ExitStep ==
    \A w \in Live :
        IsRetry(w) /\ w.pc = "exit" /\ Steps(w) =>
            /\ workers' = workers (-) SetToBag({w})
            /\ channel' = channel

\* C5: a non-transient fetch failure posts exactly one failure message and
\* ends the thread, at attempt 1, 2 or 3
NonTransientFailureEnds == [][OtherFailureStep /\ ExitStep]_vars

\* witness of C5: a thread is done after a non-transient failure of attempt 3
EndedByOtherFailureAtThree ==
    \E w \in Live :
        /\ IsRetry(w) /\ w.pc = "exit" /\ w.attempt = 3
        /\ w.posted[Len(w.posted)].fmt = "Fetch failed for {:?}: {}"

\* C6, the step: after a sleep of the polling loop the thread either polls
\* again or, the 5000 ms over, posts the timeout message and is done; it has
\* run no fetch and no status query and holds no permit
TimeoutStep ==
    \A w \in Live :
        IsRetry(w) /\ w.pc = "sleep" /\ Steps(w) =>
            \/ /\ Becomes(w, [w EXCEPT !.pc = "acquire"])
               /\ channel' = channel
            \/ /\ SendsOne /\ Sent = TimeoutMsg(w.path)
               /\ Becomes(w, [w EXCEPT !.pc = "exit",
                                       !.posted = <<Summary(TimeoutMsg(w.path))>>])
               /\ w.attempt = 0 /\ w.queries = 0 /\ ~w.guard
               /\ pool' = pool

\* a thread that waits for a permit has none, and has run and posted nothing
WaitingHasNothing ==
    \A w \in Live :
        IsRetry(w) /\ w.pc \in {"stagger", "acquire", "sleep"} =>
            ~w.guard /\ w.attempt = 0 /\ w.queries = 0 /\ w.posted = <<>>

\* C6: a thread that gets no permit within the wait posts exactly one failure
\* message (the timeout), runs neither fetch nor status query, holds no
\* permit, and ends
TimeoutEnds == []WaitingHasNothing /\ [][TimeoutStep /\ ExitStep]_vars

\* witness of C6: a thread is done after the timeout message alone
EndedByTimeout ==
    \E w \in Live :
        /\ IsRetry(w) /\ w.pc = "exit"
        /\ w.posted = <<Summary(TimeoutMsg(w.path))>>
        /\ w.attempt = 0 /\ w.queries = 0 /\ ~w.guard

\* the messages of a retrying thread w: retry notice k after attempt k while
\* it runs, at most 3 attempts, and once it is done a last message of one of
\* the kinds in terminal; a success on attempt k comes after exactly k - 1
\* notices, with one status query
RetryShape(w, terminal) ==
    LET n == Len(w.posted) IN
    /\ w.attempt <= 3
    /\ w.queries <= 1
    /\ IF w.pc = "exit"
       THEN /\ n >= 1
            /\ w.posted[n].fmt \in terminal
            /\ \A i \in 1..(n - 1) : w.posted[i] = NoticeAfter(i)
            /\ w.posted[n].fmt \in {"RepoStatusUpdated", "Failed to get git info after fetch for {:?}: {}"}
                   => n = w.attempt /\ w.queries = 1
       ELSE /\ \A i \in 1..n : w.posted[i] = NoticeAfter(i)
            /\ w.pc = "query" => n = w.attempt - 1 /\ w.queries = 0

StatusOrFetchFailure ==
    {"RepoStatusUpdated", "Failed to get git info after fetch for {:?}: {}",
     "Fetch failed for {:?}: {}", "Fetch failed for {:?} after {} attempts: {}"}

MaxCalls == 3           \* SpecWorkspace: calls made on the workspace
MaxIndex == 2           \* SpecWorkspace: largest index passed to remove_repository

\* what add_repository returns
add_repository_returns(ws, repo_path) == ~HasPath(ws.repositories, repo_path)

\* what remove_repository returns: Some(record) or None
remove_repository_returns(ws, index) ==
    IF index < Len(ws.repositories)
    THEN [some |-> TRUE, value |-> ws.repositories[index + 1]]
    ELSE [some |-> FALSE, value |-> RepositoryState(NoPath)]

\* the statuses a record may carry
Statuses == GitInfos \cup {GitInfoDefault}

\* workspaces of at most two records with pairwise distinct paths
DistinctWorkspaces ==
    { [repositories |-> [i \in 1..Len(ps) |-> [path |-> ps[i], git_info |-> gs[i]]],
       is_loaded |-> FALSE] :
        <<ps, gs>> \in UNION { {<<ps, gs>> : gs \in [1..Len(ps) -> Statuses]} :
                               ps \in {<<>>, <<PathA>>, <<PathB>>,
                                       <<PathA, PathB>>, <<PathB, PathA>>} } }

InitWorkspace == \E ws \in DistinctWorkspaces : InitWith(<<ws>>)

Called(fn, arg, ret) ==
    /\ Len(output) < MaxCalls
    /\ output' = Append(output, [fn |-> fn, arg |-> arg, ret |-> ret])
    /\ UNCHANGED <<pool, workers, channel, unapplied, active_workspace_idx,
                   syncing_repos, error_repos, pending_git_loads, is_searching,
                   first_startup, logger, now, input>>

CallAddRepository(repo_path) ==
    /\ workspaces' = [workspaces EXCEPT ![1] = add_repository(@, repo_path)]
    /\ Called("add_repository", repo_path,
              add_repository_returns(workspaces[1], repo_path))

CallRemoveRepository(index) ==
    /\ workspaces' = [workspaces EXCEPT ![1] = remove_repository(@, index)]
    /\ Called("remove_repository", index,
              remove_repository_returns(workspaces[1], index))

NextWorkspace ==
    \/ \E repo_path \in Paths : CallAddRepository(repo_path)
    \/ \E index \in 0..MaxIndex : CallRemoveRepository(index)

SpecWorkspace == InitWorkspace /\ [][NextWorkspace]_vars

LastCall == output'[Len(output')]
IsCall(fn) == Len(output') = Len(output) + 1 /\ LastCall.fn = fn

\* the sequence without its element at position k (from 1)
Without(seq, k) == [j \in 1..(Len(seq) - 1) |-> IF j < k THEN seq[j] ELSE seq[j + 1]]

\* C11: add_repository of a path that is present returns false and leaves the
\* records, their order and their statuses as they were; add_repository of a
\* path that is absent, in particular of the path of the record that the
\* call before removed, returns true and appends a record with the default
\* status; remove_repository(i) with i below the length returns the record
\* at i and removes it, and with i at or above the length returns None and
\* changes nothing.
AddStep ==
    IsCall("add_repository") =>
        LET before == workspaces[1].repositories
            after == workspaces'[1].repositories
            present == \E i \in 1..Len(before) : before[i].path = LastCall.arg
            removed == /\ output # <<>>
                       /\ output[Len(output)].fn = "remove_repository"
                       /\ output[Len(output)].ret.some
                       /\ output[Len(output)].ret.value.path = LastCall.arg
        IN  /\ present => LastCall.ret = FALSE /\ after = before
            /\ ~present \/ removed =>
                  /\ LastCall.ret = TRUE
                  /\ after = before \o <<[path |-> LastCall.arg,
                                          git_info |-> GitInfoDefault]>>

RemoveStep ==
    IsCall("remove_repository") =>
        LET before == workspaces[1].repositories
            after == workspaces'[1].repositories
            i == LastCall.arg
        IN  IF i >= Len(before)
            THEN ~LastCall.ret.some /\ workspaces' = workspaces
            ELSE /\ LastCall.ret.some
                 /\ LastCall.ret.value = before[i + 1]
                 /\ after = Without(before, i + 1)

AddAndRemoveContract == [][AddStep /\ RemoveStep]_vars

\* a record with a status was removed and its path added again, after an
\* add of a present path was refused
ReaddedAfterRemove ==
    /\ Len(output) = 3
    /\ output[1].fn = "add_repository" /\ output[1].ret = FALSE
    /\ output[2].fn = "remove_repository" /\ output[2].ret.some
    /\ output[2].ret.value.path = output[1].arg
    /\ output[2].ret.value.git_info # GitInfoDefault
    /\ output[3].fn = "add_repository" /\ output[3].arg = output[1].arg
    /\ output[3].ret = TRUE
    /\ Len(workspaces[1].repositories) = 2
    /\ workspaces[1].repositories[2] = RepositoryState(output[1].arg)

(***************************************************************************)
(* RepositorySearcher::find_git_repositories on a directory tree.  A path  *)
(* below the scanned root is the sequence of the names on the way to it, a *)
(* name is a sequence of characters.  A tree gives the kind of every       *)
(* entry: "dir", "repo" (a directory with a .git entry) or "file".         *)
(***************************************************************************)
MaxEntries == 3         \* SpecLib: entries of a directory tree below its root
MaxDepth == 2           \* SpecLib: depth of a directory tree

NodeModules == <<"n", "o", "d", "e", "_", "m", "o", "d", "u", "l", "e", "s">>
Hidden == <<".", "h">>
Build == <<"B", "u", "i", "l", "d">>
Sources == <<"s", "r", "c">>

\* the names an entry may have, in one order read_dir may list them
NameOrder == <<NodeModules, Hidden, Build, Sources>>
Names == {NameOrder[i] : i \in 1..Len(NameOrder)}
Reverse(seq) == [i \in 1..Len(seq) |-> seq[Len(seq) + 1 - i]]
EntryOrders == {NameOrder, Reverse(NameOrder)}

\* char::to_ascii_lowercase, on the letters the names use
ToAsciiLowercase(c) ==
    CASE c = "B" -> "b" [] c = "T" -> "t" [] c = "N" -> "n" [] OTHER -> c

\* str::eq_ignore_ascii_case
eq_ignore_ascii_case(a, b) ==
    /\ Len(a) = Len(b)
    /\ \A i \in 1..Len(a) : ToAsciiLowercase(a[i]) = ToAsciiLowercase(b[i])

\* the test of scan_for_repositories that keeps it out of a directory
Skipped(name_str) ==
    \/ (name_str # <<>> /\ Head(name_str) = ".")
    \/ eq_ignore_ascii_case(name_str, <<"n", "o", "d", "e", "_", "m", "o", "d", "u", "l", "e", "s">>)
    \/ eq_ignore_ascii_case(name_str, <<"t", "a", "r", "g", "e", "t">>)
    \/ eq_ignore_ascii_case(name_str, <<"b", "u", "i", "l", "d">>)

\* path.join(".git").exists(); the scanned root is the path <<>>
is_git_repository(fs, path) ==
    IF path = <<>> THEN fs.root_has_git ELSE fs.kind[path] = "repo"

\* std::fs::read_dir(dir): the entries of dir, listed in the order of order
RECURSIVE read_dir(_, _, _, _)
read_dir(fs, dir, order, i) ==
    IF i > Len(order) THEN <<>>
    ELSE (IF Append(dir, order[i]) \in DOMAIN fs.kind
          THEN <<Append(dir, order[i])>> ELSE <<>>)
         \o read_dir(fs, dir, order, i + 1)

\* scan_for_repositories(dir, repositories): the paths it pushes; ScanEntries
\* is its loop over the entries, from entry i on
RECURSIVE scan_for_repositories(_, _, _)
RECURSIVE ScanEntries(_, _, _, _)
ScanEntries(fs, entries, order, i) ==
    IF i > Len(entries) THEN <<>>
    ELSE LET path == entries[i]
             name_str == path[Len(path)]
         IN  (IF fs.kind[path] = "file" THEN <<>>
              ELSE IF is_git_repository(fs, path) THEN <<path>>
              ELSE IF ~Skipped(name_str) THEN scan_for_repositories(fs, path, order)
              ELSE <<>>)
             \o ScanEntries(fs, entries, order, i + 1)

scan_for_repositories(fs, dir, order) ==
    ScanEntries(fs, read_dir(fs, dir, order, 1), order, 1)

\* mutant of find_git_repositories: a root that is a repository is pushed
\* and scanned all the same
find_git_repositoriesDescending(fs, path, order) ==
    IF is_git_repository(fs, path)
    THEN <<path>> \o scan_for_repositories(fs, path, order)
    ELSE scan_for_repositories(fs, path, order)

\* RepositorySearcher::find_git_repositories
find_git_repositories(fs, path, order) ==
    IF is_git_repository(fs, path) THEN <<path>>
    ELSE scan_for_repositories(fs, path, order)

\* the directory trees: at most MaxEntries entries, at most MaxDepth deep,
\* no entry below a file
Parent(path) == SubSeq(path, 1, Len(path) - 1)

\* the sets of paths that have one entry more than a set of S
Grow(S) ==
    UNION { { T \cup {Append(q, name)} :
                q \in {q \in T \cup {<<>>} : Len(q) < MaxDepth}, name \in Names } :
            T \in S }

RECURSIVE PathSets(_)
PathSets(n) == IF n = 0 THEN {{}} ELSE PathSets(n - 1) \cup Grow(PathSets(n - 1))

Kinds(T) ==
    {k \in [T -> {"dir", "repo", "file"}] :
        \A p \in T : Len(p) > 1 => k[Parent(p)] # "file"}

\* find_git_repositories is about to be called on the root of a tree
InitSearch ==
    \E T \in PathSets(MaxEntries) : \E g \in BOOLEAN : \E k \in Kinds(T) :
        InitCalling([fn |-> "find_git_repositories",
                     fs |-> [root_has_git |-> g, kind |-> k]])

CallFindGitRepositories ==
    /\ input.fn = "find_git_repositories"
    /\ output = <<>>
    /\ \E order \in EntryOrders :
         output' = <<[fn |-> input.fn,
                      ret |-> find_git_repositories(input.fs, <<>>, order)]>>
    /\ UNCHANGED <<pool, workers, channel, unapplied, workspaces, active_workspace_idx,
                   syncing_repos, error_repos, pending_git_loads, is_searching,
                   first_startup, logger, now, input>>

(***************************************************************************)
(* switch_branch.  A branch name is a sequence of characters.  The         *)
(* environment env gives the outcome of gix::open and of the two git       *)
(* processes: "success", "failure" (non-zero exit) or "io_error" (the      *)
(* process could not be started).  The result lists the git processes      *)
(* issued and what the call returned.                                      *)
(***************************************************************************)
MaxSegments == 4        \* SpecLib: '/'-separated segments of a branch name

Slash == "/"
Remotes == <<"r", "e", "m", "o", "t", "e", "s">>
RefsHeads == <<"r", "e", "f", "s", "/", "h", "e", "a", "d", "s", "/">>

\* str::starts_with
starts_with(str, prefix) ==
    Len(str) >= Len(prefix) /\ SubSeq(str, 1, Len(prefix)) = prefix

\* str::split(sep).collect(): the pieces between the separators
RECURSIVE split(_, _)
split(str, sep) ==
    LET RECURSIVE first(_)
        first(i) == IF i > Len(str) THEN 0
                    ELSE IF str[i] = sep THEN i ELSE first(i + 1)
        at == first(1)
    IN  IF at = 0 THEN <<str>>
        ELSE <<SubSeq(str, 1, at - 1)>> \o split(SubSeq(str, at + 1, Len(str)), sep)

\* [&str]::join(sep)
RECURSIVE join(_, _)
join(parts, sep) ==
    IF parts = <<>> THEN <<>>
    ELSE IF Len(parts) = 1 THEN parts[1]
    ELSE parts[1] \o <<sep>> \o join(Tail(parts), sep)

Command(cmd, operands) == [cmd |-> cmd, operands |-> operands]
Returned(commands, ret) == [commands |-> commands, ret |-> ret]

\* mutant of local_branch_name: parts[2] alone instead of parts[2..].join("/")
local_branch_nameFirst(parts) == parts[3]

\* let local_branch_name = parts[2..].join("/")
local_branch_name(parts) == join(SubSeq(parts, 3, Len(parts)), Slash)

\* a checkout command has been issued: what switch_branch returns after it
AfterCheckout(env, commands) ==
    IF env.checkout = "io_error" THEN Returned(commands, "io::Error")
    ELSE IF env.checkout # "success" THEN Returned(commands, "Git checkout failed: {}")
    ELSE Returned(commands, "Ok")

switch_branch(env, branch_name) ==
    IF ~env.open THEN Returned(<<>>, "gix::open::Error")
    ELSE IF starts_with(branch_name, Remotes \o <<Slash>>) THEN
        LET parts == split(branch_name, Slash) IN
        IF Len(parts) >= 3 THEN
            LET local == local_branch_name(parts)
                check_local == Command("show-ref --verify --quiet", <<RefsHeads \o local>>)
            IN  IF env.show_ref = "io_error"
                THEN Returned(<<check_local>>, "io::Error")
                ELSE IF env.show_ref = "success"
                THEN AfterCheckout(env, <<check_local, Command("checkout", <<local>>)>>)
                ELSE AfterCheckout(env, <<check_local,
                                          Command("checkout -b", <<local, branch_name>>)>>)
        ELSE Returned(<<>>, "Invalid remote branch name format")
    ELSE AfterCheckout(env, <<Command("checkout", <<branch_name>>)>>)

Outcomes == {"success", "failure", "io_error"}
Environments == [open : BOOLEAN, show_ref : Outcomes, checkout : Outcomes]

\* branch names: up to MaxSegments segments, each "remotes", "f" or empty
BranchNames ==
    {join(parts, Slash) :
        parts \in UNION {[1..n -> {Remotes, <<"f">>, <<>>}] : n \in 1..MaxSegments}}

InitSwitch ==
    \E env \in Environments : \E branch_name \in BranchNames :
        InitCalling([fn |-> "switch_branch", env |-> env, branch_name |-> branch_name])

CallSwitchBranch ==
    /\ input.fn = "switch_branch"
    /\ output = <<>>
    /\ output' = <<[fn |-> input.fn, ret |-> switch_branch(input.env, input.branch_name)]>>
    /\ UNCHANGED <<pool, workers, channel, unapplied, workspaces, active_workspace_idx,
                   syncing_repos, error_repos, pending_git_loads, is_searching,
                   first_startup, logger, now, input>>

(***************************************************************************)
(* get_git_info and get_ahead_behind.  The environment env gives whether   *)
(* .git exists and gix::open succeeds, the branch `git branch              *)
(* --show-current` prints ("none" if it prints nothing or cannot be        *)
(* started), what `git remote` prints and whether it succeeds, and         *)
(* for each remote the outcomes of `git show-branch <remote>/<branch>` and *)
(* of `git rev-list --count --left-right` with the text the latter prints. *)
(***************************************************************************)
Tab == "\t"
Newline == "\n"
Digits == <<"0", "1", "2", "3", "4", "5", "6", "7", "8", "9">>

\* str::trim, on the white space the outputs contain
RECURSIVE trim(_)
trim(str) ==
    IF str # <<>> /\ Head(str) \in {" ", Tab, Newline} THEN trim(Tail(str))
    ELSE IF str # <<>> /\ str[Len(str)] \in {" ", Tab, Newline}
    THEN trim(SubSeq(str, 1, Len(str) - 1))
    ELSE str

\* str::parse::<usize>().unwrap_or(0)
RECURSIVE parse_or_zero(_, _)
parse_or_zero(str, acc) ==
    IF str = <<>> THEN acc
    ELSE IF \E d \in 1..10 : Digits[d] = Head(str)
    THEN parse_or_zero(Tail(str),
                       10 * acc + (CHOOSE d \in 1..10 : Digits[d] = Head(str)) - 1)
    ELSE 0

\* mutant of Counts: the two numbers are taken in the other order
CountsSwapped(output_str, at) ==
    <<parse_or_zero(SubSeq(output_str, at + 1, Len(output_str)), 0),
      parse_or_zero(SubSeq(output_str, 1, at - 1), 0)>>

\* output_str.split_once('\t') at position at, then the two parses
Counts(output_str, at) ==
    <<IF at = 1 THEN 0 ELSE parse_or_zero(SubSeq(output_str, 1, at - 1), 0),
      IF at = Len(output_str) THEN 0
      ELSE parse_or_zero(SubSeq(output_str, at + 1, Len(output_str)), 0)>>

Origin == <<"o", "r", "i", "g", "i", "n">>
Fork == <<"f">>

\* str::lines: the pieces between the line feeds, without a last empty one
lines(str) ==
    LET parts == split(str, Newline) IN
    IF parts[Len(parts)] = <<>> THEN SubSeq(parts, 1, Len(parts) - 1) ELSE parts

\* .map(|line| line.trim().to_string()).filter(|remote| !remote.is_empty())
RECURSIVE TrimmedNonEmpty(_)
TrimmedNonEmpty(ls) ==
    IF ls = <<>> THEN <<>>
    ELSE IF trim(Head(ls)) = <<>> THEN TrimmedNonEmpty(Tail(ls))
    ELSE <<trim(Head(ls))>> \o TrimmedNonEmpty(Tail(ls))

\* get_remotes: remote_cmd tells whether `git remote` ran and exited with 0
get_remotes(env) ==
    IF env.remote_cmd THEN TrimmedNonEmpty(lines(env.remote_stdout))
    ELSE <<Origin>>

\* str::contains and str::strip_prefix
contains(str, sub) ==
    \E i \in 1..(Len(str) - Len(sub) + 1) : SubSeq(str, i, i + Len(sub) - 1) = sub
strip_prefix(str, prefix) ==
    IF starts_with(str, prefix)
    THEN [some |-> TRUE, value |-> SubSeq(str, Len(prefix) + 1, Len(str))]
    ELSE [some |-> FALSE, value |-> <<>>]

\* Vec::contains
vec_contains(vec, x) == \E i \in 1..Len(vec) : vec[i] = x

\* for line in output_str.lines() { .. } of get_git_info: the lines of
\* `git branch -a` go to local_branches and remote_branches
RECURSIVE ForBranchLines(_, _, _)
ForBranchLines(ls, local_branches, remote_branches) ==
    IF ls = <<>> THEN [local_branches |-> local_branches,
                       remote_branches |-> remote_branches]
    ELSE LET line == trim(Head(ls)) IN
         IF line = <<>> THEN ForBranchLines(Tail(ls), local_branches, remote_branches)
         ELSE IF starts_with(line, <<"*", " ">>) THEN
             LET branch_name == SubSeq(line, 3, Len(line)) IN
             ForBranchLines(Tail(ls),
                            IF vec_contains(local_branches, branch_name)
                            THEN local_branches
                            ELSE Append(local_branches, branch_name),
                            remote_branches)
         ELSE IF starts_with(line, Remotes \o <<Slash>>) THEN
             ForBranchLines(Tail(ls), local_branches,
                            IF contains(line, <<"H", "E", "A", "D">>)
                            THEN remote_branches
                            ELSE Append(remote_branches, line))
         ELSE ForBranchLines(Tail(ls),
                             IF vec_contains(local_branches, line)
                             THEN local_branches
                             ELSE Append(local_branches, line),
                             remote_branches)

\* found_local of get_git_info, after the loop over the remotes
found_local(remote_branch, remotes, local_branches) ==
    \E i \in 1..Len(remotes) :
        LET branch_name == strip_prefix(remote_branch,
                                        Remotes \o <<Slash>> \o remotes[i] \o <<Slash>>)
        IN  branch_name.some /\ vec_contains(local_branches, branch_name.value)

\* the branches of the GitInfo; branch_cmd tells whether `git branch -a` ran
Branches(env) ==
    LET remotes == get_remotes(env)
        parsed == IF env.branch_cmd
                  THEN ForBranchLines(lines(env.branch_stdout), <<>>, <<>>)
                  ELSE ForBranchLines(<<>>, <<>>, <<>>)
    IN  parsed.local_branches \o
        SelectSeq(parsed.remote_branches,
                  LAMBDA remote_branch :
                      ~found_local(remote_branch, remotes, parsed.local_branches))

\* the loop of get_ahead_behind over the remotes, from remote i on
RECURSIVE ForRemotes(_, _, _)
ForRemotes(env, remotes, i) ==
    IF i > Len(remotes) THEN <<0, 0>>
    ELSE LET probe == env.probe[remotes[i]]
             output_str == trim(probe.stdout)
             at == IF \E k \in 1..Len(output_str) : output_str[k] = Tab
                   THEN CHOOSE k \in 1..Len(output_str) :
                            /\ output_str[k] = Tab
                            /\ \A j \in 1..(k - 1) : output_str[j] # Tab
                   ELSE 0
         IN  IF probe.show_branch = "success" /\ probe.rev_list = "success" /\ at # 0
             THEN Counts(output_str, at)
             ELSE ForRemotes(env, remotes, i + 1)

get_ahead_behind(env, current_branch) ==
    IF current_branch # "none" THEN ForRemotes(env, get_remotes(env), 1)
    ELSE <<0, 0>>

\* get_git_info: Err if .git is missing or gix::open fails, else the GitInfo
get_git_info(env) ==
    IF ~env.git_dir \/ ~env.open THEN QueryFailed
    ELSE LET counts == get_ahead_behind(env, env.current_branch) IN
         [ok |-> TRUE,
          info |-> [current_branch |-> env.current_branch, branches |-> Branches(env),
                    ahead |-> counts[1], behind |-> counts[2],
                    has_changes |-> env.has_changes]]

\* what rev-list may print
RevListOutputs ==
    { <<"3", Tab, "5", Newline>>, <<"1", "2", Tab, "0", Newline>>,
      <<"3", " ", "5", Newline>>, <<"x", Tab, "5", Newline>>, <<Newline>> }

Probes ==
    {[show_branch |-> o, rev_list |-> "failure", stdout |-> <<>>] :
        o \in {"failure", "io_error"}}
    \cup {[show_branch |-> "success", rev_list |-> o, stdout |-> <<>>] :
        o \in {"failure", "io_error"}}
    \cup {[show_branch |-> "success", rev_list |-> "success", stdout |-> t] :
        t \in RevListOutputs}

\* what `git remote` may print
RemoteOutputs ==
    { <<>>, Origin \o <<Newline>>, Fork \o <<Newline>>,
      Origin \o <<Newline>> \o Fork \o <<Newline>>,
      Fork \o <<Newline>> \o Origin \o <<Newline>> }

InitQuery ==
    \E git_dir, open, remote_cmd \in BOOLEAN :
    \E current_branch \in {"none", "main"} :
    \E remote_stdout \in RemoteOutputs : \E probe \in [{Origin, Fork} -> Probes] :
        /\ (~git_dir => open /\ remote_cmd /\ current_branch = "main")
        /\ InitCalling([fn |-> "get_git_info",
                        env |-> [git_dir |-> git_dir, open |-> open,
                                 current_branch |-> current_branch,
                                 remote_cmd |-> remote_cmd,
                                 remote_stdout |-> remote_stdout,
                                 branch_cmd |-> TRUE, branch_stdout |-> <<>>,
                                 probe |-> probe, has_changes |-> TRUE],
                        listing |-> <<>>])

\* the refs `git branch -a` lists and the line it prints for each: the
\* branch checked out, another local branch, a remote-tracking branch, the
\* HEAD of a remote, and the commit checked out when no branch is
MaxBranchLines == 3

Main == <<"m">>
Dev == <<"d">>
Heads == <<"H", "E", "A", "D", "s">>

Refs ==
    {[kind |-> k, remote |-> <<>>, name |-> n] : k \in {"current", "local"},
                                                 n \in {Main, Dev}}
    \cup {[kind |-> "remote", remote |-> Origin, name |-> n] : n \in {Main, Dev, Heads}}
    \cup {[kind |-> "remote", remote |-> Fork, name |-> Main],
          [kind |-> "head", remote |-> Origin, name |-> Main],
          [kind |-> "detached", remote |-> <<>>, name |-> <<"1", "f">>]}

BranchLine(ref) ==
    CASE ref.kind = "current" -> <<"*", " ">> \o ref.name
      [] ref.kind = "local" -> <<" ", " ">> \o ref.name
      [] ref.kind = "remote" ->
             <<" ", " ">> \o Remotes \o <<Slash>> \o ref.remote \o <<Slash>> \o ref.name
      [] ref.kind = "head" ->
             <<" ", " ">> \o Remotes \o <<Slash>> \o ref.remote \o <<Slash>>
             \o <<"H", "E", "A", "D", " ", "-", ">", " ">>
             \o ref.remote \o <<Slash>> \o ref.name
      [] ref.kind = "detached" ->
             <<"*", " ", "(", "H", "E", "A", "D", " ", "d", "e", "t", "a", "c", "h",
               "e", "d", " ", "a", "t", " ">> \o ref.name \o <<")">>

RECURSIVE BranchOutput(_)
BranchOutput(listing) ==
    IF listing = <<>> THEN <<>>
    ELSE BranchLine(Head(listing)) \o <<Newline>> \o BranchOutput(Tail(listing))

\* the listings git can print: every ref once, one name per local branch,
\* one line marked with '*' at most
Listings ==
    {l \in UNION {[1..n -> Refs] : n \in 0..MaxBranchLines} :
        /\ \A i, j \in 1..Len(l) : i # j => l[i] # l[j]
        /\ \A i, j \in 1..Len(l) :
               (i # j /\ l[i].kind \in {"current", "local"}
                      /\ l[j].kind \in {"current", "local"}) => l[i].name # l[j].name
        /\ \A i, j \in 1..Len(l) :
               (i # j /\ l[i].kind \in {"current", "detached"})
               => l[j].kind \notin {"current", "detached"}}

\* get_git_info on a repository with branches
InitBranches ==
    \E listing \in Listings : \E branch_cmd, remote_cmd \in BOOLEAN :
    \E remote_stdout \in {Origin \o <<Newline>>,
                          Origin \o <<Newline>> \o Fork \o <<Newline>>} :
        /\ (~branch_cmd => listing = <<>>)
        /\ InitCalling([fn |-> "get_git_info",
                        env |-> [git_dir |-> TRUE, open |-> TRUE,
                                 current_branch |-> "main",
                                 remote_cmd |-> remote_cmd,
                                 remote_stdout |-> remote_stdout,
                                 branch_cmd |-> branch_cmd,
                                 branch_stdout |-> BranchOutput(listing),
                                 probe |-> [r \in {Origin, Fork} |->
                                               [show_branch |-> "failure",
                                                rev_list |-> "failure",
                                                stdout |-> <<>>]],
                                 has_changes |-> TRUE],
                        listing |-> listing])

\* get_remotes alone, on what `git remote` did
InitRemotes ==
    \E remote_cmd \in BOOLEAN :
    \E remote_stdout \in RemoteOutputs \cup {<<" ">> \o Fork \o <<Newline, Newline>> \o Origin} :
        InitCalling([fn |-> "get_remotes",
                     env |-> [remote_cmd |-> remote_cmd,
                              remote_stdout |-> remote_stdout]])

CallGetRemotes ==
    /\ input.fn = "get_remotes"
    /\ output = <<>>
    /\ output' = <<[fn |-> input.fn, ret |-> get_remotes(input.env)]>>
    /\ UNCHANGED <<pool, workers, channel, unapplied, workspaces, active_workspace_idx,
                   syncing_repos, error_repos, pending_git_loads, is_searching,
                   first_startup, logger, now, input>>

CallGetGitInfo ==
    /\ input.fn = "get_git_info"
    /\ output = <<>>
    /\ output' = <<[fn |-> input.fn, ret |-> get_git_info(input.env)]>>
    /\ UNCHANGED <<pool, workers, channel, unapplied, workspaces, active_workspace_idx,
                   syncing_repos, error_repos, pending_git_loads, is_searching,
                   first_startup, logger, now, input>>

(***************************************************************************)
(* SpecLib: a library function is called once on arguments drawn from the  *)
(* inputs of the model                                                     *)
(***************************************************************************)
InitLib ==
    \/ InitSearch
    \/ InitSwitch
    \/ InitQuery
    \/ InitRemotes
    \/ InitBranches

NextLib ==
    \/ CallFindGitRepositories
    \/ CallSwitchBranch
    \/ CallGetGitInfo
    \/ CallGetRemotes

SpecLib == InitLib /\ [][NextLib]_vars

(***************************************************************************)
(* SpecLogger: a new Logger of the default capacity first takes input.fill *)
(* calls of info, then a few calls of info, warning, error and clear in    *)
(* any order.  The clock advances by one with every reading, so that a     *)
(* timestamp tells the how-manieth entry it is; output lists the calls     *)
(* made after the first input.fill.                                        *)
(***************************************************************************)
MaxLogCalls == 3

Messages == {"added", "failed"}

\* how many calls of info come first: none, or enough to fill the log
Fills == {0, max_logs_default - 1, max_logs_default}

InitLogger == \E n \in Fills : InitCalling([fn |-> "Logger", fill |-> n])

Filling == now < input.fill

LoggerCalled(fn) ==
    /\ IF Filling THEN fn = "info" /\ output' = output
       ELSE Len(output) < MaxLogCalls /\ output' = Append(output, fn)
    /\ UNCHANGED <<pool, workers, channel, unapplied, workspaces, active_workspace_idx,
                   syncing_repos, error_repos, pending_git_loads, is_searching,
                   first_startup, input>>

CallInfo ==
    /\ \E m \in (IF Filling THEN {"added"} ELSE Messages) :
           logger' = info(logger, now, m)
    /\ now' = now + 1
    /\ LoggerCalled("info")

CallWarning ==
    /\ \E m \in Messages : logger' = warning(logger, now, m)
    /\ now' = now + 1
    /\ LoggerCalled("warning")

CallError ==
    /\ \E m \in Messages : logger' = error(logger, now, m)
    /\ now' = now + 1
    /\ LoggerCalled("error")

CallClear ==
    /\ logger' = clear(logger)
    /\ now' = now
    /\ LoggerCalled("clear")

NextLogger ==
    \/ CallInfo
    \/ CallWarning
    \/ CallError
    \/ CallClear

SpecLogger == InitLogger /\ [][NextLogger]_vars

(***************************************************************************)
(* Properties of the Logger (SpecLogger)                                   *)
(***************************************************************************)
Logs == logger.logs
Min(a, b) == IF a < b THEN a ELSE b

\* the log holds at most 1000 entries, they were added one after the other,
\* and the last of them is the entry added last
NewestInOrder ==
    /\ Len(Logs) <= 1000
    /\ \A i \in 1..(Len(Logs) - 1) : Logs[i + 1].timestamp = Logs[i].timestamp + 1
    /\ Logs # <<>> => Logs[Len(Logs)].timestamp = now - 1

\* an add appends its entry and, only if that makes 1001 entries, drops the
\* oldest one; clear empties the log
LoggerStep ==
    /\ now' = now + 1 =>
          /\ Len(logger'.logs) = Min(Len(Logs) + 1, 1000)
          /\ logger'.logs[Len(logger'.logs)].timestamp = now
          /\ \A i \in 1..(Len(logger'.logs) - 1) :
                 logger'.logs[i] = Logs[i + Len(Logs) + 1 - Len(logger'.logs)]
    /\ now' = now => logger'.logs = <<>>

\* C19: after any sequence of info, warning, error and clear calls on a
\* Logger of capacity 1000 the log holds at most 1000 entries, which are the
\* most recently added ones in the order they were added: a full log loses
\* exactly its oldest entry with each add
LogHoldsNewestThousand == []NewestInOrder /\ [][LoggerStep]_vars

\* a full log has taken one more entry after a clear-free run
OldestEvicted ==
    /\ Len(Logs) = 1000
    /\ Logs[1].timestamp > 0
    /\ Logs[1000].level = "Error"

(***************************************************************************)
(* Properties of find_git_repositories (SpecLib)                           *)
(***************************************************************************)
Searched == input.fn = "find_git_repositories" /\ output # <<>>
Found == output[1].ret

\* path p lies strictly inside path q
Inside(p, q) == Len(q) < Len(p) /\ SubSeq(p, 1, Len(q)) = q

\* the scan reaches path p: no directory on the way to it is a repository or
\* has a name the scan keeps out of
Reached(fs, p) ==
    \A k \in 1..(Len(p) - 1) :
        fs.kind[SubSeq(p, 1, k)] = "dir" /\ ~Skipped(p[k])

\* C12: no returned path lies strictly inside another returned path or is
\* returned twice; every returned path is a repository; a repository the
\* scan reaches is returned; and if the root has a .git entry the result is
\* the root alone.
NoNestedRepositories ==
    Searched =>
        /\ \A i, j \in 1..Len(Found) :
               i # j => ~Inside(Found[i], Found[j]) /\ Found[i] # Found[j]
        /\ \A i \in 1..Len(Found) : is_git_repository(input.fs, Found[i])
        /\ ~input.fs.root_has_git =>
               \A p \in DOMAIN input.fs.kind :
                   input.fs.kind[p] = "repo" /\ Reached(input.fs, p) =>
                       \E i \in 1..Len(Found) : Found[i] = p
        /\ input.fs.root_has_git => Found = << <<>> >>

\* a repository with a repository inside it was scanned and only the outer
\* one was returned
ParentReturnedWithoutChild ==
    /\ Searched
    /\ ~input.fs.root_has_git
    /\ \E p, q \in DOMAIN input.fs.kind :
          /\ input.fs.kind[p] = "repo" /\ input.fs.kind[q] = "repo"
          /\ Inside(q, p)
          /\ Found = <<p>>

\* C13: on a tree in which every repository has a name the scan keeps out
\* of (starting with '.', or node_modules, target or build in any case) on
\* its path, the result is empty.
OnlySkippedRepositoriesYieldNothing ==
    ( /\ Searched
      /\ ~input.fs.root_has_git
      /\ \A p \in DOMAIN input.fs.kind :
             input.fs.kind[p] = "repo" => \E k \in 1..Len(p) : Skipped(p[k]) )
    => Found = <<>>

(***************************************************************************)
(* Properties of switch_branch (SpecLib)                                   *)
(***************************************************************************)
Switched == input.fn = "switch_branch" /\ output # <<>>
Issued == output[1].ret.commands
SwitchResult == output[1].ret.ret

\* the positions of the '/' characters of a name, in increasing order
SlashesOf(name) == {i \in 1..Len(name) : name[i] = "/"}
NthSlash(name, n) ==
    CHOOSE i \in SlashesOf(name) : Cardinality({j \in SlashesOf(name) : j <= i}) = n

RemoteRef(name) ==
    Len(name) >= 8 /\ SubSeq(name, 1, 8) = <<"r", "e", "m", "o", "t", "e", "s", "/">>
Malformed(name) == RemoteRef(name) /\ Cardinality(SlashesOf(name)) < 2
\* what follows the second '/' of remotes/<remote>/<name>
LocalOf(name) == SubSeq(name, NthSlash(name, 2) + 1, Len(name))

IsCheckout(c) == c.cmd \in {"checkout", "checkout -b"}
PlainCheckout(target) == [cmd |-> "checkout", operands |-> <<target>>]
TrackingCheckout(local, remote) == [cmd |-> "checkout -b", operands |-> <<local, remote>>]

\* the table of switch_branch, for the call the state records
SwitchTable ==
    LET name == input.branch_name
        checkouts == SelectSeq(Issued, IsCheckout)
    IN  /\ Malformed(name) =>
               Issued = <<>> /\ SwitchResult = "Invalid remote branch name format"
        /\ RemoteRef(name) /\ ~Malformed(name) /\ input.env.show_ref = "success" =>
               checkouts = <<PlainCheckout(LocalOf(name))>>
        /\ RemoteRef(name) /\ ~Malformed(name) /\ input.env.show_ref = "failure" =>
               checkouts = <<TrackingCheckout(LocalOf(name), name)>>
        /\ ~RemoteRef(name) => Issued = <<PlainCheckout(name)>>
        /\ checkouts # <<>> /\ input.env.checkout = "failure" =>
               SwitchResult = "Git checkout failed: {}"

\* C14 as stated: every call of switch_branch follows the table.
SwitchFollowsTable == Switched => SwitchTable

\* C14, amended: every call of switch_branch on a repository that gix::open
\* opens follows the table; if the repository does not open, no git process
\* is issued and the error of gix::open is returned, whatever the name.  A
\* remote ref is looked up with show-ref before any checkout, and a call
\* returns Ok only after a checkout that exited with zero.
SwitchFollowsTableIfOpened ==
    Switched =>
        /\ input.env.open => SwitchTable
        /\ ~input.env.open => Issued = <<>> /\ SwitchResult = "gix::open::Error"
        /\ RemoteRef(input.branch_name) /\ Issued # <<>> =>
               Issued[1] = [cmd |-> "show-ref --verify --quiet",
                            operands |-> <<<<"r", "e", "f", "s", "/", "h", "e", "a", "d", "s", "/">>
                                           \o LocalOf(input.branch_name)>>]
        /\ SwitchResult = "Ok" =>
               input.env.checkout = "success" /\ IsCheckout(Issued[Len(Issued)])

\* remotes/f/f/f with no local branch f/f: a create-and-track checkout of
\* f/f was issued after the lookup and switch_branch returned Ok
TrackingCheckoutIssued ==
    /\ Switched
    /\ input.env.open /\ input.env.show_ref = "failure" /\ input.env.checkout = "success"
    /\ input.branch_name = <<"r", "e", "m", "o", "t", "e", "s", "/", "f", "/", "f", "/", "f">>
    /\ Len(Issued) = 2
    /\ Issued[2] = TrackingCheckout(<<"f", "/", "f">>, input.branch_name)
    /\ SwitchResult = "Ok"

(***************************************************************************)
(* Properties of get_git_info (SpecLib)                                    *)
(***************************************************************************)
Queried == input.fn = "get_git_info" /\ output # <<>> /\ output[1].ret.ok
Info == output[1].ret.info

\* what `git remote` prints for a list of remotes
RECURSIVE Listing(_)
Listing(names) ==
    IF names = <<>> THEN <<>> ELSE Head(names) \o <<"\n">> \o Listing(Tail(names))
RemoteLists == {<<>>, <<Origin>>, <<Fork>>, <<Origin, Fork>>, <<Fork, Origin>>}

\* the remotes the query goes through: those `git remote` lists, or origin
\* alone if it fails
Asked ==
    IF input.env.remote_cmd
    THEN CHOOSE names \in RemoteLists : input.env.remote_stdout = Listing(names)
    ELSE <<Origin>>

\* remote i has the tracking branch, and rev-list printed two fields for it
Tracks(i) == input.env.probe[Asked[i]].show_branch = "success"
Reports(i) ==
    /\ Tracks(i)
    /\ input.env.probe[Asked[i]].rev_list = "success"
    /\ \E k \in 1..Len(input.env.probe[Asked[i]].stdout) :
           input.env.probe[Asked[i]].stdout[k] = "\t"

\* the decimal digits of n, and the line rev-list prints for the counts a, b
RECURSIVE Decimal(_)
Decimal(n) ==
    IF n < 10 THEN <<Digits[n + 1]>> ELSE Append(Decimal(n \div 10), Digits[(n % 10) + 1])
Printed(a, b) == Decimal(a) \o <<"\t">> \o Decimal(b) \o <<"\n">>

\* C15: a GitInfo without a current branch has ahead = behind = 0; so has
\* one for which no remote has the tracking branch; and if the first remote
\* that reports printed the counts a and b, ahead = a and behind = b.
AheadBehindAsReported ==
    Queried =>
        /\ Info.current_branch = "none" => Info.ahead = 0 /\ Info.behind = 0
        /\ (\A i \in 1..Len(Asked) : ~Tracks(i)) => Info.ahead = 0 /\ Info.behind = 0
        /\ \A i \in 1..Len(Asked) : \A a, b \in 0..12 :
               ( /\ Info.current_branch # "none"
                 /\ Reports(i) /\ \A j \in 1..(i - 1) : ~Reports(j)
                 /\ input.env.probe[Asked[i]].stdout = Printed(a, b) )
               => Info.ahead = a /\ Info.behind = b

\* the second remote asked was the first to report, 12 ahead and 0 behind
SecondRemoteReported ==
    /\ Queried
    /\ Info.current_branch = "main"
    /\ Len(Asked) = 2 /\ Tracks(1) /\ ~Reports(1) /\ Reports(2)
    /\ input.env.probe[Asked[2]].stdout = Printed(12, 0)
    /\ Info.ahead = 12 /\ Info.behind = 0

Listed == input.fn = "get_remotes" /\ output # <<>>

\* C22: get_remotes returns the one name origin when `git remote` fails and
\* when it succeeds but lists no remote, and otherwise the names it lists,
\* in their order
RemotesOrOrigin ==
    Listed =>
        /\ ~input.env.remote_cmd => output[1].ret = <<Origin>>
        /\ \A names \in RemoteLists :
               (input.env.remote_cmd /\ input.env.remote_stdout = Listing(names))
               => output[1].ret = IF names = <<>> THEN <<Origin>> ELSE names

\* the entry of GitInfo.branches for a ref, and the local branches and the
\* remote-tracking branches of the listing in the order of the listing
RemoteEntry(ref) == <<"r", "e", "m", "o", "t", "e", "s", "/">> \o ref.remote \o <<"/">> \o ref.name
Locals == SelectSeq(input.listing, LAMBDA ref : ref.kind \in {"current", "local"})
Tracking == SelectSeq(input.listing, LAMBDA ref : ref.kind = "remote")
HasLocal(name) == \E i \in 1..Len(Locals) : Locals[i].name = name
KnownRemote(remote) == \E i \in 1..Len(Asked) : Asked[i] = remote
Shown ==
    SelectSeq(Tracking, LAMBDA ref : ~(KnownRemote(ref.remote) /\ HasLocal(ref.name)))

\* C23: GitInfo.branches is the local branch names, the current one
\* included, each once, followed by the remote-tracking entries; an entry
\* remotes/<remote>/<name> is left out exactly when <remote> is a known
\* remote and a local branch <name> exists; no entry comes twice
BranchesLocalThenRemote ==
    (Queried /\ input.env.branch_cmd) =>
        /\ Info.branches = [i \in 1..Len(Locals) |-> Locals[i].name]
                           \o [i \in 1..Len(Shown) |-> RemoteEntry(Shown[i])]
        /\ \A i, j \in 1..Len(Info.branches) :
               i # j => Info.branches[i] # Info.branches[j]

\* C21: the remotes are examined in list order and the first one that has
\* the tracking branch decides the result: the counts rev-list printed for
\* it, or (0, 0) if rev-list failed for it or printed no two fields; no
\* later remote is consulted
FirstTrackingRemoteDecides ==
    (Queried /\ Info.current_branch # "none") =>
        \A i \in 1..Len(Asked) :
            (Tracks(i) /\ \A j \in 1..(i - 1) : ~Tracks(j)) =>
                /\ ~Reports(i) => Info.ahead = 0 /\ Info.behind = 0
                /\ \A a, b \in 0..12 :
                       (Reports(i) /\ input.env.probe[Asked[i]].stdout = Printed(a, b))
                       => Info.ahead = a /\ Info.behind = b

(***************************************************************************)
(* Properties of the indicators of a repository (SpecPool, SpecMarks)      *)
(***************************************************************************)
\* C17: while a pull, push or fetch thread dispatched for a repository is
\* live, a fetch-with-retry thread between two attempts included, the path
\* of the repository is in syncing_repos.
SyncingWhileOutstanding ==
    \A w \in Live : IsFast(w) \/ IsRetry(w) => w.path \in syncing_repos

\* the repositories a failure in the channel can be about
Failed(msg, p) == msg.type = "Error" /\ msg.text.body = DebugFmt(p)
Refreshed(msg, p) == msg.type = "RepoStatusUpdated" /\ msg.repo_path = p
Drained == channel # <<>> /\ channel' = <<>>
KnownPaths ==
    UNION { {workspaces[i].repositories[j].path :
                 j \in 1..Len(workspaces[i].repositories)} :
            i \in 1..Len(workspaces) }

\* a drained failure for p that no later message of the same frame overrides
\* is logged, ends the indicator of p and sets its error marker
FailureStep ==
    \A p \in KnownPaths : \A i \in 1..Len(channel) :
        ( /\ Drained
          /\ Failed(channel[i], p)
          /\ \A j \in (i + 1)..Len(channel) : ~Refreshed(channel[j], p) )
        => /\ \E k \in 1..Len(HandleAll(AppState, channel, 1).pending_logs) :
                  LET line == HandleAll(AppState, channel, 1).pending_logs[k] IN
                  line.level = "Error" /\ line.args = <<channel[i].text>>
           /\ p \notin syncing_repos'
           /\ p \in error_repos'

\* the error marker of p goes away only when a RepoStatusUpdated for p is
\* drained or the user refreshes p
MarkerStep ==
    \A p \in KnownPaths :
        (p \in error_repos /\ p \notin error_repos')
        => \/ Drained /\ \E i \in 1..Len(channel) : Refreshed(channel[i], p)
           \/ /\ channel' = channel
              /\ CopiesIn(refresh_repo_status_async(p), workers')
                     > CopiesIn(refresh_repo_status_async(p), workers)

\* C18: draining a failure a worker reported for a repository adds a log
\* entry, clears the in-progress indicator of the repository and sets its
\* error marker, and the marker stays until a RepoStatusUpdated for the same
\* path is drained or the user refreshes the repository
FailureMarksRepository == [][FailureStep /\ MarkerStep]_vars

(***************************************************************************)
(* Properties of the pull, push and fetch threads and the pool (SpecPool)  *)
(***************************************************************************)
\* a pull, push or fetch thread that found the pool empty stays before its
\* mutation or reports the failure
RefusedStep ==
    \A w \in Live :
        (IsFast(w) /\ w.pc = "start" /\ pool = 0 /\ Steps(w))
        => \/ CopiesIn(w, workers') = CopiesIn(w, workers)
           \/ /\ Len(channel') = Len(channel) + 1
              /\ channel'[Len(channel')].type = "Error"

\* C20: a pull, push or fetch thread that finds no free token keeps trying
\* to acquire one or reports failure, and never runs its git mutation
\* without holding a permit
FastMutatesUnderPermit ==
    /\ [](\A w \in Live : IsFast(w) /\ RunsMutation(w) => HoldsPermit(w))
    /\ [][RefusedStep]_vars

\* C25: in every reachable state the free tokens of the pool and the live
\* permits add up to 8, and the pool never holds more than 8 tokens: no
\* token is returned twice, none comes from a thread that took none
TokensConserved ==
    /\ pool \in 0..8
    /\ pool + CountLive(HoldsPermit) = 8

\* the pool was exhausted, seven holders have ended since, and a thread that
\* was refused a permit is still running
RefusedOutlivesHolders ==
    /\ pool = 7
    /\ \E w \in Live : IsFast(w) /\ w.pc \in {"mutate", "query"} /\ ~w.guard

\* a step of a fetch-with-retry thread that holds a permit: the thread goes
\* on with the permit and the pool as it is, or it ends and the token is back
HoldsStep ==
    \A w \in Live :
        (IsRetry(w) /\ w.guard /\ Steps(w)) =>
            \/ Ends(w) /\ pool' = pool + 1
            \/ /\ pool' = pool
               /\ \E w2 \in BagToSet(workers') : Becomes(w, w2) /\ IsRetry(w2) /\ w2.guard

\* C26: a fetch-with-retry thread that obtained a permit holds that permit
\* from the acquisition until it ends, through every attempt, every sleep
\* between attempts and the status query after the fetch
PermitHeldThroughout ==
    /\ [](\A w \in Live :
              (IsRetry(w) /\ w.pc \in {"mutate", "backoff", "query"}) => w.guard)
    /\ [][HoldsStep]_vars

\* a thread runs its status query after two sleeps, with its permit
QueryAfterTwoSleeps ==
    \E w \in Live :
        /\ IsRetry(w) /\ w.pc = "query" /\ w.guard
        /\ w.attempt = 3 /\ w.delay_ms = 4 * InitialDelayMs
        /\ Len(w.posted) = 2

(***************************************************************************)
(* Properties of load_workspace (SpecLoad)                                 *)
(***************************************************************************)
IsLoaded(wss, k) == k < Len(wss) /\ wss[k + 1].is_loaded
OccurrencesOf(path, repositories) ==
    Cardinality({i \in 1..Len(repositories) : repositories[i].path = path})

\* a call for a workspace not loaded starts one refresh for each of its
\* repositories and sets its flag; any other call starts nothing; no call
\* changes another flag
LoadStep ==
    output' # output =>
        LET k == output'[Len(output')].arg IN
        /\ \A j \in 0..(Len(workspaces) - 1) :
               j # k => IsLoaded(workspaces', j) = IsLoaded(workspaces, j)
        /\ IF k < Len(workspaces) /\ ~IsLoaded(workspaces, k)
           THEN /\ IsLoaded(workspaces', k)
                /\ BagCardinality(workers') = BagCardinality(workers)
                                              + Len(workspaces[k + 1].repositories)
                /\ \A path \in KnownPaths :
                       CopiesIn(refresh_repo_status_async(path), workers')
                       = CopiesIn(refresh_repo_status_async(path), workers)
                         + OccurrencesOf(path, workspaces[k + 1].repositories)
           ELSE /\ workers' = workers
                /\ IsLoaded(workspaces', k) = IsLoaded(workspaces, k)

\* C24: load_workspace on a workspace whose flag is false dispatches exactly
\* one status refresh for each repository of the workspace and sets the flag;
\* a later load_workspace or switch_to_workspace for it dispatches none; an
\* index out of range dispatches nothing and changes no flag
LoadsOnce == [][LoadStep]_vars

\* the second workspace was loaded, then switched to, and the only threads
\* are the one of the first frame and the two of the load
SwitchedToLoaded ==
    /\ Len(output) = 2
    /\ output[1] = [fn |-> "load_workspace", arg |-> 1]
    /\ output[2] = [fn |-> "switch_to_workspace", arg |-> 1]
    /\ active_workspace_idx = 1
    /\ BagCardinality(workers) = 3
    /\ pending_git_loads = 3

\* C27: once the message of every refresh load_workspace dispatched has been
\* drained, pending_git_loads is 0 again, whether the queries succeeded or
\* failed; the counter never goes below 0
PendingLoadsSettle ==
    /\ pending_git_loads >= 0
    /\ (~first_startup /\ workers = EmptyBag /\ channel = <<>>) => pending_git_loads = 0

\* workspace k (from 1) is the first that holds the path
FirstHolder(k, path) ==
    /\ HasPath(workspaces[k].repositories, path)
    /\ \A j \in 1..(k - 1) : ~HasPath(workspaces[j].repositories, path)
StatusFor(path) ==
    {channel[m].git_info : m \in {n \in 1..Len(channel) : Refreshed(channel[n], path)}}

\* a drain without ReposFound keeps every sequence of records and every path;
\* the status of a record changes only if it is the record of a drained
\* RepoStatusUpdated's path in the first workspace that holds the path, and
\* then to the status drained
StatusStep ==
    (Drained /\ \A m \in 1..Len(channel) : channel[m].type # "ReposFound") =>
        /\ Len(workspaces') = Len(workspaces)
        /\ \A k \in 1..Len(workspaces) :
               LET old == workspaces[k].repositories
                   new == workspaces'[k].repositories
               IN  /\ Len(new) = Len(old)
                   /\ workspaces'[k].is_loaded = workspaces[k].is_loaded
                   /\ \A i \in 1..Len(old) :
                          /\ new[i].path = old[i].path
                          /\ IF FirstHolder(k, old[i].path) /\ StatusFor(old[i].path) # {}
                             THEN new[i].git_info \in StatusFor(old[i].path)
                             ELSE new[i].git_info = old[i].git_info

DiscoveryOutstanding ==
    \/ CountLive(IsSearch) > 0
    \/ \E m \in 1..Len(channel) : channel[m].type = "ReposFound"

\* C29: the repositories a discovery finds go to the workspace that was
\* active when the discovery was started, whatever the user switches to
\* before the ReposFound is drained: with every discovery started under the
\* first workspace, the second never gets a repository; and is_searching is
\* true as long as a discovery thread runs or its ReposFound waits in the
\* channel
FoundGoToStartingWorkspace ==
    /\ \A k \in 2..Len(workspaces) : workspaces[k].repositories = <<>>
    /\ DiscoveryOutstanding => is_searching

(***************************************************************************)
(* Properties of the indicators of a repository (SpecMarksFair)            *)
(***************************************************************************)
\* C30: a repository that a pull, push, fetch or fetch-all put into
\* syncing_repos is eventually taken out of it, as long as update() keeps
\* draining: on every path the thread sends a message from which update()
\* recovers the path of the repository
SyncingEventuallyCleared ==
    \A p \in {PathA, PathC} : (p \in syncing_repos) ~> (p \notin syncing_repos)

====
